---- MODULE Spec2Model ----
(***************************************************************************)
(* A model of the snapshot store (src/src/database.py), the trend          *)
(* analyzer (src/src/trend_analyzer.py) and the batch entry points         *)
(* (src/src/main.py) of gh-trending-monitor.                               *)
(*                                                                         *)
(* Representation.                                                         *)
(*  - A Python dict is a TLA+ function on strings; a key bound to None and *)
(*    an absent key are both modelled as an absent key, so d.get(k) is     *)
(*    "k \in DOMAIN d" and an SQL NULL column is an absent field.          *)
(*  - A date is the text strftime("%Y-%m-%d") writes: a sequence of ten    *)
(*    character codes.  SQLite compares TEXT bytewise, and so does LexLess.*)
(*  - repos_daily and repos_history map each date text to the rows that    *)
(*    carry it, in rowid order (AUTOINCREMENT: the order of insertion).    *)
(*    The date column of a row is the key it is filed under.               *)
(*  - repos_daily, repos_history, repos_details are the committed content  *)
(*    of the database file; txn is what the open connection has written    *)
(*    and not yet committed.                                               *)
(***************************************************************************)
EXTENDS Integers, Sequences, FiniteSets, TLC

VARIABLES
    repos_daily,     \* committed table repos_daily
    repos_history,   \* committed table repos_history
    repos_details,   \* committed table repos_details, in rowid order
    txn,             \* the connection's uncommitted writes
    pc,              \* position of the calling process
    call,            \* the last call made: which, how it ended, what it returned
    upserted,        \* history variable: per date and repo_name, the row of the
                     \* most recent committed upsert into repos_daily
    saved,           \* history variable: per repo_name, the record of the most
                     \* recent committed save_repo_details, as a reader gets it
    now,             \* the clock, hours since 1970-01-01T00:00Z
    tz,              \* the local time zone, hours east of UTC
    DB_RETENTION_DAYS,  \* config.py: the DB_RETENTION_DAYS the process loaded
    SURGE_THRESHOLD,    \* config.py: SURGE_THRESHOLD, in ten-thousandths
    environ,         \* os.environ: the settings the process was started with
    run              \* main() / main_fetch_only(): the local variables of the
                     \* run under way

vars == <<repos_daily, repos_history, repos_details, txn, pc, call, upserted,
          saved, now, tz, DB_RETENTION_DAYS, SURGE_THRESHOLD, environ, run>>

(***************************************************************************)
(* Bounds and input sets                                                   *)
(***************************************************************************)

\* Longest record list handed to save_today_data / save_repo_details.
MaxBatch == 2

\* The days snapshots are stored for: 2025-12-31 and 2026-01-01 (days since
\* 1970-01-01), so that the texts differ in year, month and day.
Days == {20453, 20454}

\* Time zones of the host: UTC-12, UTC, UTC+12.
Zones == {-12, 0, 12}

\* Values of the DB_RETENTION_DAYS environment variable (90 is the default).
RetentionChoices == {1, 90}

(***************************************************************************)
(* Python dict helpers                                                     *)
(***************************************************************************)

\* d.get(k, default)
Get(d, k, default) == IF k \in DOMAIN d THEN d[k] ELSE default

\* The sub-dict of d on the keys ks that d binds.
Pick(d, ks) == [k \in (ks \cap DOMAIN d) |-> d[k]]

Range(s) == {s[i] : i \in DOMAIN s}

(***************************************************************************)
(* Dates: datetime <-> "%Y-%m-%d" text                                     *)
(***************************************************************************)

\* The proleptic Gregorian date <<y, m, d>> of a day number (days since
\* 1970-01-01), as datetime computes it.
CivilFromDays(z) ==
    LET z1  == z + 719468
        era == z1 \div 146097
        doe == z1 - era * 146097
        yoe == (doe - doe \div 1460 + doe \div 36524 - doe \div 146096) \div 365
        doy == doe - (365 * yoe + yoe \div 4 - yoe \div 100)
        mp  == (5 * doy + 2) \div 153
        d   == doy - (153 * mp + 2) \div 5 + 1
        m   == IF mp < 10 THEN mp + 3 ELSE mp - 9
        y   == yoe + era * 400 + (IF m <= 2 THEN 1 ELSE 0)
    IN  <<y, m, d>>

\* The day number of a date.
DaysFromCivil(y, m, d) ==
    LET y1  == IF m <= 2 THEN y - 1 ELSE y
        era == y1 \div 400
        yoe == y1 - era * 400
        mp  == IF m > 2 THEN m - 3 ELSE m + 9
        doy == (153 * mp + 2) \div 5 + d - 1
        doe == yoe * 365 + yoe \div 4 - yoe \div 100 + doy
    IN  era * 146097 + doe - 719468

\* Character codes: "0" is 48, "-" is 45.
Digit(n) == 48 + n
Dash == <<45>>

\* strftime("%Y-%m-%d") of a day number: zero-padded, ten characters.
StrFTime(day) ==
    LET c == CivilFromDays(day)
    IN  <<Digit(c[1] \div 1000), Digit((c[1] \div 100) % 10),
          Digit((c[1] \div 10) % 10), Digit(c[1] % 10)>>
        \o Dash \o <<Digit(c[2] \div 10), Digit(c[2] % 10)>>
        \o Dash \o <<Digit(c[3] \div 10), Digit(c[3] % 10)>>

\* datetime.strptime(text, "%Y-%m-%d") as a day number.
StrPTime(s) ==
    DaysFromCivil((s[1] - 48) * 1000 + (s[2] - 48) * 100 + (s[3] - 48) * 10 + (s[4] - 48),
                  (s[6] - 48) * 10 + (s[7] - 48),
                  (s[9] - 48) * 10 + (s[10] - 48))

\* SQLite's TEXT comparison a < b (BINARY collation: bytewise, then length).
LexLess(a, b) ==
    \/ \E i \in 1..Len(a) :
          /\ i <= Len(b)
          /\ a[i] < b[i]
          /\ \A j \in 1..(i - 1) : a[j] = b[j]
    \/ /\ Len(a) < Len(b)
       /\ \A j \in 1..Len(a) : a[j] = b[j]

\* The date texts the tables are keyed by: every day a caller of the model
\* can name, and the days before them that get_yesterday_data asks for.
DateTexts == {StrFTime(d) : d \in Days} \cup {StrFTime(d - 1) : d \in Days}

\* main.get_today_date(): datetime.now(timezone.utc).strftime("%Y-%m-%d")
get_today_date(t) == StrFTime(t \div 24)

\* datetime.now(): the naive local time, as a day number.
LocalDay(t, zone) == (t + zone) \div 24

(***************************************************************************)
(* Input records                                                           *)
(***************************************************************************)

\* A record as GitHubFetcher._parse_repo_item builds it (the keys the core
\* reads).  The entities and their values are the model's choice.  updated_at
\* is a text the analyzer compares: its character codes, here those of the
\* date the timestamp begins with; "" is <<>>.
Repo(name, owner, rank, stars, forks, updated) ==
    [rank |-> rank, repo_name |-> name, owner |-> owner, stars |-> stars,
     forks |-> forks, issues |-> rank + 1, language |-> "Python",
     url |-> "https://github.com/" \o name, updated_at |-> updated]

RepoA1 == Repo("acme/a", "acme", 1, 100, 7, StrFTime(20454))
RepoA2 == Repo("acme/a", "acme", 2, 150, 9, StrFTime(20455))
RepoB1 == Repo("bob/b", "bob", 1, 50, 3, <<>>)

\* A record whose stargazers_count came back null: no "stars", and no
\* "language" either.
RepoBad == [rank |-> 2, repo_name |-> "bob/b", owner |-> "bob", forks |-> 0,
            issues |-> 0, url |-> "https://github.com/bob/b"]

RepoPool == {RepoA1, RepoA2, RepoB1}

\* All sequences over S of length at most n.
RECURSIVE SeqsUpTo(_, _)
SeqsUpTo(S, n) ==
    IF n = 0 THEN {<<>>}
    ELSE LET shorter == SeqsUpTo(S, n - 1)
         IN  shorter \cup {Append(q, x) : q \in {r \in shorter : Len(r) = n - 1}, x \in S}

\* The lists handed to save_today_data: the lists over the pool, and those
\* that end with the record that cannot be stored (the loop never gets to a
\* record behind it).
Batches ==
    SeqsUpTo(RepoPool, MaxBatch)
    \cup {Append(b, RepoBad) : b \in SeqsUpTo(RepoPool, MaxBatch - 1)}

\* Lists for the analyzer: on day one acme/a leads bob/b; on day two bob/b
\* has gained 30 stars and leads cat/c, and acme/a is gone.
RepoB2 == Repo("bob/b", "bob", 2, 50, 3, StrFTime(20453))
RepoB3 == Repo("bob/b", "bob", 1, 80, 4, StrFTime(20454))
RepoC2 == Repo("cat/c", "cat", 2, 40, 1, <<>>)

DayOne == <<RepoA1, RepoB2>>
DayTwo == <<RepoB3, RepoC2>>

\* A record without the key "repo_name", as no parser of GitHubFetcher builds
\* it: a caller of calculate_trends other than main() made it.
RepoNameless == [rank |-> 2, owner |-> "dan", stars |-> 60, forks |-> 2,
                 issues |-> 3, language |-> "Python",
                 url |-> "https://github.com/dan/d", updated_at |-> <<>>]

\* today_data of calculate_trends.
TrendInputs == {<<>>, DayOne, DayTwo, <<RepoA2, RepoBad>>,
                <<RepoB3, RepoNameless, RepoC2>>}

(***************************************************************************)
(* Database: repos_daily and repos_history                                 *)
(***************************************************************************)

\* Database.init_db: a table of the store, empty.
EmptyTable == [d \in DateTexts |-> <<>>]

\* Columns declared NOT NULL without a default (init_db).
DailyNotNull == {"rank", "repo_name", "owner", "stars"}
HistoryNotNull == {"repo_name", "rank", "stars"}

\* VALUES (...) of the INSERT into repos_daily for one record: every column
\* from repo.get(column), stars_delta defaulting to 0 and url to "".
DailyRow(repo) ==
    Pick(repo, {"rank", "repo_name", "owner", "stars", "stars_delta", "forks",
                "issues", "language", "url"})
    @@ [stars_delta |-> 0, url |-> ""]

\* A history row written without its forks column.
HistoryRowNoForks(repo) == Pick(repo, {"repo_name", "rank", "stars"})

\* VALUES (...) of the INSERT into repos_history for one record.
HistoryRow(repo) == Pick(repo, {"repo_name", "rank", "stars", "forks"})

\* INSERT without a conflict clause, were the UNIQUE constraint absent.
InsertPlain(rows, row) == Append(rows, row)

\* INSERT OR IGNORE: a row that conflicts is dropped, the old one stays.
InsertOrIgnore(rows, row) ==
    IF \E i \in 1..Len(rows) : rows[i].repo_name = row.repo_name THEN rows
    ELSE Append(rows, row)

\* INSERT OR REPLACE under UNIQUE(date, repo_name), within one date's rows:
\* the rows that conflict are deleted, the new row gets the next rowid.
InsertOrReplace(rows, row) ==
    Append(SelectSeq(rows, LAMBDA r : r.repo_name # row.repo_name), row)

\* No sqlite3.IntegrityError: no NOT NULL column is bound to None.
Insertable(repo) ==
    /\ DailyNotNull \subseteq DOMAIN DailyRow(repo)
    /\ HistoryNotNull \subseteq DOMAIN HistoryRow(repo)

\* How many records of the list the loop of save_today_data gets through
\* when nothing interrupts it: all of them, or those before the first one
\* that raises.
Writable(repos) ==
    IF \A i \in 1..Len(repos) : Insertable(repos[i]) THEN Len(repos)
    ELSE (CHOOSE i \in 1..Len(repos) :
            /\ ~Insertable(repos[i])
            /\ \A j \in 1..(i - 1) : Insertable(repos[j])) - 1

\* The connection's view of the two tables after the loop of save_today_data
\* has executed its first k records on the view w.
RECURSIVE save_loop(_, _, _, _)
save_loop(w, date, repos, k) ==
    IF k = 0 THEN w
    ELSE LET p == save_loop(w, date, repos, k - 1)
         IN  [daily   |-> [p.daily EXCEPT
                              ![date] = InsertOrReplace(@, DailyRow(repos[k]))],
              history |-> [p.history EXCEPT
                              ![date] = InsertOrReplace(@, HistoryRow(repos[k]))]]

\* A commit after every record, instead of one after the loop.
save_committed_each(before, date, repos, k) == save_loop(before, date, repos, k)

\* What the database file holds after a call of save_today_data that
\* executed k of its records: self.conn.commit() is the statement after the
\* loop, so the file takes the writes only when the loop has finished.
save_committed(before, date, repos, k) ==
    IF k = Len(repos)
    THEN save_loop(before, date, repos, k)
    ELSE before

NoTxn == [open |-> FALSE]

\* No batch run is under way.
NoRun == [step |-> 0]

\* History of one date: known, a mapping repo_name -> row, after the records
\* of a committed save_today_data, the later record winning.
RECURSIVE Upserts(_, _)
Upserts(known, repos) ==
    IF repos = <<>> THEN known
    ELSE Upserts((Head(repos).repo_name :> DailyRow(Head(repos))) @@ known,
                 Tail(repos))

\* Database.save_today_data(date, repos), interrupted or not: what it does
\* to the store.  k is the number of records executed before the call
\* ended: the whole list, the records before the first that raises, or
\* fewer when the process is interrupted (KeyboardInterrupt, kill) inside
\* the loop.  The log keeps `entry` (who called, and what the caller
\* returns) and how the call went.
save_today_data(date, repos, k, entry) ==
    LET before == [daily |-> repos_daily, history |-> repos_history]
        view   == save_loop(before, date, repos, k)
        after  == save_committed(before, date, repos, k)
        done   == k = Len(repos)
    IN  /\ repos_daily' = after.daily
        /\ repos_history' = after.history
        /\ txn' = IF done THEN NoTxn ELSE [open |-> TRUE] @@ view
        /\ pc' = IF done THEN "ready" ELSE "failed"
        /\ upserted' = IF done THEN [upserted EXCEPT ![date] = Upserts(@, repos)]
                       ELSE upserted
        /\ call' = entry
                   @@ [written  |-> k,
                       \* rows of the date that the REPLACE displaced
                       replaced |-> Len(before.daily[date]) + k
                                    - Len(view.daily[date]),
                       \* the file holds what it held before the call
                       same     |-> after = before,
                       outcome  |-> IF done THEN "ok"
                                    ELSE IF k = Writable(repos) THEN "raised"
                                    ELSE "interrupted"]

\* A caller's save_today_data(date, repos).
SaveTodayData(date, repos) ==
    /\ pc = "ready"
    /\ \E k \in 0..Writable(repos) :
          save_today_data(date, repos, k, [op |-> "save_today_data"])
    /\ UNCHANGED <<repos_details, saved, now, tz, DB_RETENTION_DAYS,
                   SURGE_THRESHOLD, environ, run>>

\* main / main_fetch_only after an exception: "finally: db.close()" and
\* sys.exit.  Closing the connection discards what it had not committed;
\* the next process opens the file afresh.
ExitAfterFailure ==
    /\ pc = "failed"
    /\ txn' = NoTxn
    /\ pc' = "ready"
    /\ run' = NoRun
    /\ UNCHANGED <<repos_daily, repos_history, repos_details, call, upserted,
                   saved, now, tz, DB_RETENTION_DAYS, SURGE_THRESHOLD, environ>>

\* Database.get_repos_by_date's ORDER BY rank over one date's rows: rows of
\* equal rank come out in rowid order.
RECURSIVE OrderByRank(_)
OrderByRank(rows) ==
    IF rows = <<>> THEN <<>>
    ELSE LET m == CHOOSE i \in 1..Len(rows) :
                     /\ \A j \in 1..Len(rows) : rows[i].rank <= rows[j].rank
                     /\ \A j \in 1..(i - 1) : rows[j].rank > rows[i].rank
         IN  <<rows[m]>> \o OrderByRank(SubSeq(rows, 1, m - 1)
                                        \o SubSeq(rows, m + 1, Len(rows)))

\* Database.get_repos_by_date(date) on the table `daily`.
get_repos_by_date(daily, date) ==
    IF date \in DOMAIN daily THEN OrderByRank(daily[date]) ELSE <<>>

\* The most recent stored day before `date`, instead of the day before.
get_latest_prior(daily, date) ==
    LET earlier == {d \in DOMAIN daily : LexLess(d, date) /\ daily[d] # <<>>}
    IN  IF earlier = {} THEN <<>>
        ELSE get_repos_by_date(daily, CHOOSE d \in earlier :
                                         \A e \in earlier : ~LexLess(d, e))

\* The rows of `date` itself, instead of the day before.
get_same_day(daily, date) == get_repos_by_date(daily, date)

\* Database.get_yesterday_data(date) on the table `daily`.
get_yesterday_data(daily, date) ==
    get_repos_by_date(daily, StrFTime(StrPTime(date) - 1))

(***************************************************************************)
(* Database.cleanup_old_data                                               *)
(***************************************************************************)

\* The arguments cleanup_old_data is called with: none, or days.
CleanupArgs == {[k \in {} |-> 0]} \cup {[k \in {"days"} |-> n] : n \in {0, 1, 2}}

\* retention_days = days or DB_RETENTION_DAYS
retention_days(args, configured) ==
    IF "days" \in DOMAIN args /\ args.days # 0 THEN args.days ELSE configured

\* cutoff_date = (datetime.now() - timedelta(days=retention_days)).strftime(...)
cutoff_date(t, zone, days) == StrFTime(LocalDay(t, zone) - days)

\* DELETE ... WHERE date <= cutoff.
delete_through(table, cutoff) ==
    [d \in DOMAIN table |->
        IF LexLess(d, cutoff) \/ d = cutoff THEN <<>> ELSE table[d]]

\* DELETE FROM <table> WHERE date < cutoff: the table that remains.
delete_before(table, cutoff) ==
    [d \in DOMAIN table |-> IF LexLess(d, cutoff) THEN <<>> ELSE table[d]]

RECURSIVE SumLen(_, _)
SumLen(table, ds) ==
    IF ds = {} THEN 0
    ELSE LET d == CHOOSE x \in ds : TRUE
         IN  Len(table[d]) + SumLen(table, ds \ {d})

\* cursor.rowcount of that DELETE.
rowcount(table, cutoff) ==
    SumLen(table, {d \in DOMAIN table : LexLess(d, cutoff)})

\* Database.cleanup_old_data(days): what it does to the store.  The log
\* keeps the arguments of the call, the cutoff and the count returned.
cleanup_old_data(args) ==
    LET cutoff == cutoff_date(now, tz, retention_days(args, DB_RETENTION_DAYS))
    IN  /\ repos_daily' = delete_before(repos_daily, cutoff)
        /\ repos_history' = delete_before(repos_history, cutoff)
        /\ call' = [op |-> "cleanup_old_data", args |-> args, cutoff |-> cutoff,
                    ret |-> rowcount(repos_daily, cutoff)
                            + rowcount(repos_history, cutoff)]

\* A cleanup that empties repos_details as well.
CleanupAlsoDetails(args) ==
    /\ pc = "ready"
    /\ cleanup_old_data(args)
    /\ repos_details' = <<>>
    /\ UNCHANGED <<txn, pc, upserted, saved, now, tz, DB_RETENTION_DAYS,
                   SURGE_THRESHOLD, environ, run>>

\* A caller's cleanup_old_data(days).
CleanupOldData(args) ==
    /\ pc = "ready"
    /\ cleanup_old_data(args)
    /\ UNCHANGED <<repos_details, txn, pc, upserted, saved, now, tz,
                   DB_RETENTION_DAYS, SURGE_THRESHOLD, environ, run>>

(***************************************************************************)
(* Database: repos_details                                                 *)
(***************************************************************************)

\* json.dumps of a list of strings, as the sequence of its tokens.
RECURSIVE JsonItems(_)
JsonItems(list) ==
    IF list = <<>> THEN <<>>
    ELSE IF Len(list) = 1 THEN <<list[1]>>
    ELSE <<list[1], ",">> \o JsonItems(Tail(list))

json_dumps(list) == <<"[">> \o JsonItems(list) \o <<"]">>

\* json.loads of such a text.
json_loads(text) == [i \in 1..((Len(text) - 1) \div 2) |-> text[2 * i]]

\* A record as ClaudeSummarizer._parse_batch_response builds it.
Detail(name, owner, summary, solves, category, category_zh) ==
    [repo_name |-> name, summary |-> summary,
     description |-> summary \o " (long)", use_case |-> "cli",
     solves |-> solves, category |-> category, category_zh |-> category_zh,
     tech_stack |-> <<"python">>, language |-> "Python", topics |-> <<"ai">>,
     readme_summary |-> "", owner |-> owner,
     url |-> "https://github.com/" \o name]

DetailA1 == Detail("acme/a", "acme", "a tool", <<"x", "y">>, "tool", "gongju")
DetailA2 == Detail("acme/a", "acme", "a plugin", <<>>, "plugin", "chajian")
DetailB1 == Detail("bob/b", "bob", "b docs", <<"z">>, "docs", "wendang")

\* The answer of the text service carried "summary": null.
DetailBad == [repo_name |-> "bob/b", description |-> "", use_case |-> "",
              category |-> "other", category_zh |-> "qita", owner |-> "bob",
              url |-> "https://github.com/bob/b"]

DetailPool == {DetailA1, DetailA2, DetailB1}

\* The lists handed to save_repo_details: the lists over the pool, and those
\* that end with the record that cannot be stored.
DetailBatches ==
    SeqsUpTo(DetailPool, MaxBatch)
    \cup {Append(b, DetailBad) : b \in SeqsUpTo(DetailPool, MaxBatch - 1)}

RepoNames == {"acme/a", "bob/b"}

\* Columns of repos_details declared NOT NULL without a default.
DetailsNotNull == {"repo_name", "summary", "category", "category_zh", "owner", "url"}

\* VALUES (...) of the INSERT into repos_details for one record: solves and
\* topics as JSON text of detail.get(column, []), the rest detail.get(column).
DetailsRow(detail) ==
    [solves |-> json_dumps(Get(detail, "solves", <<>>)),
     topics |-> json_dumps(Get(detail, "topics", <<>>))]
    @@ Pick(detail, {"repo_name", "summary", "description", "use_case", "category",
                     "category_zh", "language", "readme_summary", "owner", "url"})

DetailInsertable(detail) == DetailsNotNull \subseteq DOMAIN DetailsRow(detail)

DetailsWritable(details) ==
    IF \A i \in 1..Len(details) : DetailInsertable(details[i]) THEN Len(details)
    ELSE (CHOOSE i \in 1..Len(details) :
            /\ ~DetailInsertable(details[i])
            /\ \A j \in 1..(i - 1) : DetailInsertable(details[j])) - 1

\* The connection's view of repos_details after the loop of save_repo_details
\* has executed its first k records.
RECURSIVE details_loop(_, _, _)
details_loop(rows, details, k) ==
    IF k = 0 THEN rows
    ELSE InsertOrReplace(details_loop(rows, details, k - 1), DetailsRow(details[k]))

\* dict(row) with the two JSON columns parsed (they are never empty text).
DetailOfRow(row) ==
    [solves |-> json_loads(row.solves), topics |-> json_loads(row.topics)] @@ row

\* Database.get_repo_details(repo_name): fetchone() of the rows that match,
\* as a sequence of at most one dict (None is the empty sequence).
get_repo_details(rows, name) ==
    LET found == SelectSeq(rows, LAMBDA r : r.repo_name = name)
    IN  IF found = <<>> THEN <<>> ELSE <<DetailOfRow(found[1])>>

\* Database.get_all_repo_details(): {repo_name: detail}, a later row
\* overwriting an earlier one of the same name.
RECURSIVE get_all_repo_details(_)
get_all_repo_details(rows) ==
    IF rows = <<>> THEN <<>>
    ELSE LET last == rows[Len(rows)]
         IN  (last.repo_name :> DetailOfRow(last))
             @@ get_all_repo_details(SubSeq(rows, 1, Len(rows) - 1))

\* History per repo_name after a committed save_repo_details: the persisted
\* columns of each record, the later record winning.
RECURSIVE Saves(_, _)
Saves(known, details) ==
    IF details = <<>> THEN known
    ELSE LET d == Head(details)
         IN  Saves((d.repo_name :>
                      ([solves |-> Get(d, "solves", <<>>),
                        topics |-> Get(d, "topics", <<>>)]
                       @@ Pick(d, {"repo_name", "summary", "description", "use_case",
                                   "category", "category_zh", "language",
                                   "readme_summary", "owner", "url"})))
                   @@ known,
                   Tail(details))

\* Database.save_repo_details(details), interrupted or not: what it does to
\* the store; k as in save_today_data.  The commit follows the loop.
save_repo_details(details, k) ==
    LET view == details_loop(repos_details, details, k)
        done == k = Len(details)
    IN  /\ repos_details' = IF done THEN view ELSE repos_details
        /\ txn' = IF done THEN NoTxn ELSE [open |-> TRUE, details |-> view]
        /\ pc' = IF done THEN "ready" ELSE "failed"
        /\ call' = [op |-> "save_repo_details", written |-> k,
                    replaced |-> Len(repos_details) + k - Len(view),
                    same |-> (done => view = repos_details),
                    outcome |-> IF done THEN "ok"
                                ELSE IF k = DetailsWritable(details) THEN "raised"
                                ELSE "interrupted"]
        /\ saved' = IF done THEN Saves(saved, details) ELSE saved

\* A caller's save_repo_details(details).
SaveRepoDetails(details) ==
    /\ pc = "ready"
    /\ \E k \in 0..DetailsWritable(details) : save_repo_details(details, k)
    /\ UNCHANGED <<repos_daily, repos_history, upserted, now, tz,
                   DB_RETENTION_DAYS, SURGE_THRESHOLD, environ, run>>

(***************************************************************************)
(* TrendAnalyzer (src/src/trend_analyzer.py)                               *)
(*                                                                         *)
(* The records of today's list are objects the analyzer updates in place,  *)
(* and every bucket but dropped_entries is a list of references to them.   *)
(* A bucket is modelled as the list of positions its records have in       *)
(* today's list; the result is read after the last update, as the caller   *)
(* reads it.  stars_rate and SURGE_THRESHOLD are numbers of                *)
(* ten-thousandths (0.3 is 3000).                                          *)
(***************************************************************************)

EmptyDict == [k \in {} |-> 0]

\* s[:n]
Take(s, n) == SubSeq(s, 1, IF Len(s) < n THEN Len(s) ELSE n)

\* The positions 1..Len(list), in order.
Indices(list) == [i \in 1..Len(list) |-> i]

\* list.sort(key=...) with integer keys: ascending and stable.  With
\* reverse=True Python keeps equal elements in their original order too, so
\* a descending sort is this sort on the negated keys.
RECURSIVE SortByKey(_, _)
SortByKey(items, keys) ==
    IF items = <<>> THEN <<>>
    ELSE LET m == CHOOSE i \in 1..Len(items) :
                     /\ \A j \in 1..Len(items) : keys[i] <= keys[j]
                     /\ \A j \in 1..(i - 1) : keys[j] > keys[i]
             Drop(s) == SubSeq(s, 1, m - 1) \o SubSeq(s, m + 1, Len(s))
         IN  <<items[m]>> \o SortByKey(Drop(items), Drop(keys))

\* round(n / d, 4) for d > 0, in ten-thousandths: to the nearest, a tie to
\* the even one (on an exact tie the float quotient decides in Python; the
\* inputs of the model produce none).
Round4(n, d) ==
    LET q == (n * 10000) \div d
        r == (n * 10000) % d
    IN  IF 2 * r < d THEN q
        ELSE IF 2 * r > d THEN q + 1
        ELSE IF q % 2 = 0 THEN q ELSE q + 1

\* {r["repo_name"]: r for r in yesterday_data}: the last row of a name wins.
RECURSIVE yesterday_map(_)
yesterday_map(yesterday_data) ==
    IF yesterday_data = <<>> THEN EmptyDict
    ELSE LET last == yesterday_data[Len(yesterday_data)]
         IN  (last.repo_name :> last)
             @@ yesterday_map(SubSeq(yesterday_data, 1, Len(yesterday_data) - 1))

\* yesterday_map.items(): the names in the order they were first inserted.
yesterday_items(yesterday_data) ==
    LET first == SelectSeq(Indices(yesterday_data),
                           LAMBDA i : \A j \in 1..(i - 1) :
                              yesterday_data[j].repo_name # yesterday_data[i].repo_name)
    IN  [i \in DOMAIN first |-> yesterday_data[first[i]].repo_name]

\* The loop body of _calculate_deltas raises KeyError: repo["repo_name"] is
\* read first, repo["rank"] and repo["stars"] when yesterday has the name.
DeltaRaises(repo, ymap) ==
    \/ "repo_name" \notin DOMAIN repo
    \/ /\ repo.repo_name \in DOMAIN ymap
       /\ ~({"rank", "stars"} \subseteq DOMAIN repo)

\* A loop body that fills in the three values of a new entity with
\* setdefault: a value the record already carries stays.
DeltaOfKeepsStale(repo, ymap) ==
    IF repo.repo_name \in DOMAIN ymap
    THEN LET yesterday_repo  == ymap[repo.repo_name]
             yesterday_rank  == Get(yesterday_repo, "rank", repo.rank)
             yesterday_stars == Get(yesterday_repo, "stars", repo.stars)
             stars_delta     == repo.stars - yesterday_stars
         IN  [rank_delta  |-> yesterday_rank - repo.rank,
              stars_delta |-> stars_delta,
              stars_rate  |-> IF yesterday_stars > 0
                              THEN Round4(stars_delta, yesterday_stars)
                              ELSE 0] @@ repo
    ELSE repo @@ [rank_delta |-> 0, stars_delta |-> 0, stars_rate |-> 0]

\* A loop body that takes the rate of today's stars instead of yesterday's.
DeltaOfRateOfToday(repo, ymap) ==
    IF repo.repo_name \in DOMAIN ymap
    THEN LET yesterday_repo  == ymap[repo.repo_name]
             yesterday_rank  == Get(yesterday_repo, "rank", repo.rank)
             yesterday_stars == Get(yesterday_repo, "stars", repo.stars)
             stars_delta     == repo.stars - yesterday_stars
         IN  [rank_delta  |-> yesterday_rank - repo.rank,
              stars_delta |-> stars_delta,
              stars_rate  |-> IF repo.stars > 0
                              THEN Round4(stars_delta, repo.stars)
                              ELSE 0] @@ repo
    ELSE [rank_delta |-> 0, stars_delta |-> 0, stars_rate |-> 0] @@ repo

\* The record after the loop body of _calculate_deltas.
DeltaOf(repo, ymap) ==
    IF repo.repo_name \in DOMAIN ymap
    THEN LET yesterday_repo  == ymap[repo.repo_name]
             yesterday_rank  == Get(yesterday_repo, "rank", repo.rank)
             yesterday_stars == Get(yesterday_repo, "stars", repo.stars)
             stars_delta     == repo.stars - yesterday_stars
         IN  [rank_delta  |-> yesterday_rank - repo.rank,
              stars_delta |-> stars_delta,
              stars_rate  |-> IF yesterday_stars > 0
                              THEN Round4(stars_delta, yesterday_stars)
                              ELSE 0] @@ repo
    ELSE [rank_delta |-> 0, stars_delta |-> 0, stars_rate |-> 0] @@ repo

\* A pass that returns only the records yesterday knows, with their deltas.
_calculate_deltas_of_known(today, ymap) ==
    LET known == SelectSeq(today, LAMBDA r : r.repo_name \in DOMAIN ymap)
    IN  [i \in DOMAIN known |-> DeltaOf(known[i], ymap)]

\* TrendAnalyzer._calculate_deltas(today, yesterday_map), when no record
\* raises: the loop over today.
RECURSIVE _calculate_deltas(_, _)
_calculate_deltas(today, ymap) ==
    IF today = <<>> THEN <<>>
    ELSE <<DeltaOf(Head(today), ymap)>> \o _calculate_deltas(Tail(today), ymap)

\* The two keys with defaults: empty strings for a name ai_summaries lacks.
ShortSummaryOrEmpty(name, ai_summaries) ==
    IF ai_summaries # EmptyDict /\ name \in DOMAIN ai_summaries
    THEN [summary     |-> Get(ai_summaries[name], "summary", ""),
          category_zh |-> Get(ai_summaries[name], "category_zh", "")]
    ELSE [summary |-> "", category_zh |-> ""]

\* The two keys the mover, new, surging and active buckets attach:
\* "if ai_summaries:" and "if repo_name in ai_summaries".
ShortSummary(name, ai_summaries) ==
    IF ai_summaries # EmptyDict /\ name \in DOMAIN ai_summaries
    THEN [summary     |-> Get(ai_summaries[name], "summary", ""),
          category_zh |-> Get(ai_summaries[name], "category_zh", "")]
    ELSE EmptyDict

\* The six keys without the else branch: a record whose name ai_summaries
\* lacks gets none of them.
FullSummaryIfKnown(name, ai_summaries) ==
    IF name \in DOMAIN ai_summaries
    THEN LET summary == ai_summaries[name]
         IN  [summary     |-> Get(summary, "summary", ""),
              description |-> Get(summary, "description", ""),
              use_case    |-> Get(summary, "use_case", ""),
              solves      |-> Get(summary, "solves", <<>>),
              category    |-> Get(summary, "category", ""),
              category_zh |-> Get(summary, "category_zh", "")]
    ELSE EmptyDict

\* The six keys _get_top_20_with_summary sets on each of today[:20].
FullSummary(name, ai_summaries) ==
    IF name \in DOMAIN ai_summaries
    THEN LET summary == ai_summaries[name]
         IN  [summary     |-> Get(summary, "summary", ""),
              description |-> Get(summary, "description", ""),
              use_case    |-> Get(summary, "use_case", ""),
              solves      |-> Get(summary, "solves", <<>>),
              category    |-> Get(summary, "category", ""),
              category_zh |-> Get(summary, "category_zh", "")]
    ELSE [summary |-> "", description |-> "", use_case |-> "", solves |-> <<>>,
          category |-> "", category_zh |-> ""]

\* _get_top_20_with_summary: the positions of today[:20].
_get_top_20_with_summary(today) == Take(Indices(today), 20)

\* Movers with the descending order made by reversing an ascending sort:
\* records of equal stars_delta come out in reverse input order.
_get_top_movers_reversed(today, direction, limit) ==
    LET movers == SelectSeq(Indices(today),
                     LAMBDA i : IF direction = "up"
                                THEN Get(today[i], "stars_delta", 0) > 0
                                ELSE Get(today[i], "stars_delta", 0) < 0)
        keys   == [i \in DOMAIN movers |-> today[movers[i]].stars_delta]
        sorted == SortByKey(movers, keys)
    IN  Take(IF direction = "up"
             THEN [i \in DOMAIN sorted |-> sorted[Len(sorted) + 1 - i]]
             ELSE sorted, limit)

\* _get_top_movers(today, direction, limit): positions.
_get_top_movers(today, direction, limit) ==
    LET movers == SelectSeq(Indices(today),
                     LAMBDA i : IF direction = "up"
                                THEN Get(today[i], "stars_delta", 0) > 0
                                ELSE Get(today[i], "stars_delta", 0) < 0)
        keys   == [i \in DOMAIN movers |->
                     IF direction = "up" THEN 0 - today[movers[i]].stars_delta
                     ELSE today[movers[i]].stars_delta]
    IN  Take(SortByKey(movers, keys), limit)

\* New entries told by their zero deltas instead of by yesterday's names.
_find_new_by_zero_delta(today, ymap) ==
    SelectSeq(Indices(today),
              LAMBDA i : today[i].rank_delta = 0 /\ today[i].stars_delta = 0)

\* _find_new_entries: positions.
_find_new_entries(today, ymap) ==
    SelectSeq(Indices(today), LAMBDA i : today[i].repo_name \notin DOMAIN ymap)

\* A surge test with "rate > threshold" for "rate >= threshold".
_find_surging_above(today, threshold) ==
    SelectSeq(Indices(today),
              LAMBDA i : \/ Get(today[i], "stars_rate", 0) > threshold
                         \/ Get(today[i], "stars_delta", 0) >= 100)

\* _find_surging_repos: positions.
_find_surging_repos(today, threshold) ==
    SelectSeq(Indices(today),
              LAMBDA i : \/ Get(today[i], "stars_rate", 0) >= threshold
                         \/ Get(today[i], "stars_delta", 0) >= 100)

\* Active records without the filter "if r.get("updated_at")": a record
\* with no timestamp sorts as the empty text.
_find_active_unfiltered(today) ==
    LET keys == [i \in 1..Len(today) |->
                    0 - Cardinality({j \in 1..Len(today) :
                           LexLess(Get(today[j], "updated_at", <<>>),
                                   Get(today[i], "updated_at", <<>>))})]
    IN  Take(SortByKey(Indices(today), keys), 10)

\* _find_active_repos: positions.  Python orders the updated_at texts
\* lexicographically; the key of a text is the number of texts below it.
_find_active_repos(today) ==
    LET dated == SelectSeq(Indices(today),
                    LAMBDA i : Get(today[i], "updated_at", <<>>) # <<>>)
        keys  == [i \in DOMAIN dated |->
                    0 - Cardinality({j \in DOMAIN dated :
                           LexLess(today[dated[j]].updated_at,
                                   today[dated[i]].updated_at)})]
    IN  Take(SortByKey(dated, keys), 10)

\* _find_dropped_entries: new dicts, one per name of yesterday that today
\* lacks, in the order of yesterday_map.
_find_dropped_entries(today, yesterday_data, ai_summaries) ==
    LET today_names == {today[i].repo_name : i \in DOMAIN today}
        ymap        == yesterday_map(yesterday_data)
        gone        == SelectSeq(yesterday_items(yesterday_data),
                                 LAMBDA n : n \notin today_names)
    IN  [i \in DOMAIN gone |->
           LET yesterday_repo == ymap[gone[i]]
           IN  ShortSummary(gone[i], ai_summaries)
               @@ [repo_name |-> gone[i],
                   stars     |-> Get(yesterday_repo, "stars", 0),
                   url       |-> Get(yesterday_repo, "url", "")]
               @@ (IF "rank" \in DOMAIN yesterday_repo
                   THEN [yesterday_rank |-> yesterday_repo.rank]
                   ELSE EmptyDict)]

\* The results dict of calculate_trends, from today's list with its deltas.
\* A record of today[:20] carries the six keys; a record that a mover, new,
\* surging or active bucket holds carries the two keys when ai_summaries is
\* not empty and has its name.  The two agree on the keys they share, so
\* the order of the updates does not show.
trend_results(date, today, yesterday_data, ai_summaries, threshold) ==
    LET ymap    == yesterday_map(yesterday_data)
        top_20  == _get_top_20_with_summary(today)
        rising  == _get_top_movers(today, "up", 5)
        falling == _get_top_movers(today, "down", 5)
        new     == _find_new_entries(today, ymap)
        surging == _find_surging_repos(today, threshold)
        active  == _find_active_repos(today)
        short   == Range(rising) \cup Range(falling) \cup Range(new)
                   \cup Range(surging) \cup Range(active)
        final   == [i \in 1..Len(today) |->
                      (IF i \in short
                       THEN ShortSummary(today[i].repo_name, ai_summaries)
                       ELSE EmptyDict)
                      @@ (IF i \in Range(top_20)
                          THEN FullSummary(today[i].repo_name, ai_summaries)
                          ELSE EmptyDict)
                      @@ today[i]]
        Deref(bucket) == [i \in DOMAIN bucket |-> final[bucket[i]]]
    IN  [date            |-> date,
         top_20          |-> Deref(top_20),
         rising_top5     |-> Deref(rising),
         falling_top5    |-> Deref(falling),
         new_entries     |-> Deref(new),
         dropped_entries |-> _find_dropped_entries(today, yesterday_data, ai_summaries),
         surging         |-> Deref(surging),
         active          |-> Deref(active)]

\* The ai_summaries parameter is None (the empty sequence) or a dict (a
\* sequence of one): "if ai_summaries is None: get_all_repo_details()".
SummariesOf(ai_summaries, details) ==
    IF ai_summaries = <<>> THEN get_all_repo_details(details) ELSE ai_summaries[1]

\* TrendAnalyzer.calculate_trends(today_data, date, ai_summaries) run to its
\* end on the store db: whether it returned, the tables it leaves, and the
\* results it returns.
calculate_trends(db, date, today_data, ai_summaries, threshold) ==
    LET yesterday_data == get_yesterday_data(db.daily, date)
        ymap           == yesterday_map(yesterday_data)
    IN  IF \E i \in DOMAIN today_data : DeltaRaises(today_data[i], ymap)
        THEN [ok |-> FALSE]
        ELSE LET today_with_delta == _calculate_deltas(today_data, ymap)
                 before == [daily |-> db.daily, history |-> db.history]
                 after  == save_committed(before, date, today_with_delta,
                                          Len(today_with_delta))
             IN  IF Writable(today_with_delta) < Len(today_with_delta)
                 THEN [ok |-> FALSE]
                 ELSE [ok      |-> TRUE,
                       daily   |-> after.daily,
                       history |-> after.history,
                       ret     |-> trend_results(date, today_with_delta,
                                      yesterday_data,
                                      SummariesOf(ai_summaries, db.details),
                                      threshold)]

\* The store as the open connection reads it when nothing is uncommitted.
Store == [daily |-> repos_daily, history |-> repos_history,
          details |-> repos_details]

\* calculate_trends, interrupted or not: what it does to the store and what
\* the log keeps.  A KeyError of _calculate_deltas ends the call before it
\* has written; otherwise k is as in save_today_data.
CalculateTrendsStep(date, today_data, ai_summaries) ==
    LET ymap == yesterday_map(get_yesterday_data(repos_daily, date))
        args == [date |-> date, today_data |-> today_data,
                 ai_summaries |-> ai_summaries]
    IN  IF \E i \in DOMAIN today_data : DeltaRaises(today_data[i], ymap)
        THEN /\ pc' = "failed"
             /\ call' = [op |-> "calculate_trends", args |-> args,
                         written |-> 0, replaced |-> 0, same |-> TRUE,
                         outcome |-> "raised"]
             /\ UNCHANGED <<repos_daily, repos_history, txn, upserted>>
        ELSE LET today_with_delta == _calculate_deltas(today_data, ymap)
             IN  \E k \in 0..Writable(today_with_delta) :
                    save_today_data(date, today_with_delta, k,
                        [op |-> "calculate_trends", args |-> args]
                        @@ (IF k = Len(today_with_delta)
                            THEN [ret |-> calculate_trends(Store, date,
                                             today_data, ai_summaries,
                                             SURGE_THRESHOLD).ret]
                            ELSE EmptyDict))

\* A caller's calculate_trends(today_data, date, ai_summaries).
CalculateTrends(date, today_data, ai_summaries) ==
    /\ pc = "ready"
    /\ CalculateTrendsStep(date, today_data, ai_summaries)
    /\ UNCHANGED <<repos_details, saved, now, tz, DB_RETENTION_DAYS,
                   SURGE_THRESHOLD, environ, run>>

(***************************************************************************)
(* config.py: settings read from the environment                           *)
(***************************************************************************)

\* The text of an environment variable and what float(text) makes of it:
\* <<x>> for the number x, in ten-thousandths, and <<>> for ValueError.
EnvText(text, parsed) == [text |-> text, float |-> parsed]

\* config._get_env_float(key, default) on the environment env.
_get_env_float(env, key, default) ==
    IF key \notin DOMAIN env \/ env[key].text = "" THEN default
    ELSE IF env[key].float = <<>> THEN default
    ELSE LET result == env[key].float[1]
         IN  IF result < 0 THEN 0
             ELSE IF result > 10000 THEN 10000
             ELSE result

\* Environments a process is started with: nothing set; SURGE_THRESHOLD set
\* to 0.5, to 0, to a text that is no number; SURGE_ABSOLUTE_FLOOR set to 50.
Environs ==
    {[k \in {} |-> 0],
     [SURGE_THRESHOLD |-> EnvText("0.5", <<5000>>)],
     [SURGE_THRESHOLD |-> EnvText("0", <<0>>)],
     [SURGE_THRESHOLD |-> EnvText("high", <<>>)],
     [SURGE_ABSOLUTE_FLOOR |-> EnvText("50", <<500000>>)]}

(***************************************************************************)
(* main() (src/src/main.py): the batch run, step by step                   *)
(***************************************************************************)

\* ai_summary_map = {s["repo_name"]: s for s in ai_summaries}
RECURSIVE ai_summary_map(_)
ai_summary_map(ai_summaries) ==
    IF ai_summaries = <<>> THEN EmptyDict
    ELSE LET last == ai_summaries[Len(ai_summaries)]
         IN  (last.repo_name :> last)
             @@ ai_summary_map(SubSeq(ai_summaries, 1, Len(ai_summaries) - 1))

\* Steps 1 to 3: today = get_today_date(), then the fetch and the answer of
\* the text service, which are inputs.  `before` is a history field: the
\* database file as the run found it, kept until the run has its trends.
RunStart(today_repos, ai_summaries) ==
    /\ pc = "ready"
    /\ run = NoRun
    /\ run' = [step |-> 4, today |-> get_today_date(now),
               today_repos |-> today_repos, ai_summaries |-> ai_summaries,
               before |-> Store]
    /\ call' = [op |-> "main"]
    /\ UNCHANGED <<repos_daily, repos_history, repos_details, txn, pc, upserted,
                   saved, now, tz, DB_RETENTION_DAYS, SURGE_THRESHOLD, environ>>

\* Step 4: db.save_repo_details(ai_summaries)
RunSaveDetails ==
    /\ pc = "ready"
    /\ run.step = 4
    /\ \E k \in 0..DetailsWritable(run.ai_summaries) :
          save_repo_details(run.ai_summaries, k)
    /\ run' = IF pc' = "ready" THEN [run EXCEPT !.step = 5] ELSE run
    /\ UNCHANGED <<repos_daily, repos_history, upserted, now, tz,
                   DB_RETENTION_DAYS, SURGE_THRESHOLD, environ>>

\* self.db.get_yesterday_data(date), the first statement of calculate_trends,
\* raises sqlite3.Error (the file is locked or cannot be read): the call ends
\* there, nothing written.
YesterdayReadFails(date, today_data, ai_summaries) ==
    /\ pc' = "failed"
    /\ call' = [op |-> "calculate_trends",
                args |-> [date |-> date, today_data |-> today_data,
                          ai_summaries |-> ai_summaries],
                written |-> 0, replaced |-> 0, same |-> TRUE,
                outcome |-> "raised", error |-> "sqlite3.Error"]
    /\ UNCHANGED <<repos_daily, repos_history, txn, upserted>>

\* The result of a calculate_trends that found nothing.
EmptyTrends(date) ==
    [date |-> date, top_20 |-> <<>>, rising_top5 |-> <<>>,
     falling_top5 |-> <<>>, new_entries |-> <<>>, dropped_entries |-> <<>>,
     surging |-> <<>>, active |-> <<>>]

\* Step 5 in a try/except of its own: when the Store cannot be read the run
\* goes on to the e-mail with empty buckets.
RunCalculateTrendsOrEmpty ==
    /\ pc = "ready"
    /\ run.step = 5
    /\ \/ /\ CalculateTrendsStep(run.today, run.today_repos,
                                  <<ai_summary_map(run.ai_summaries)>>)
          /\ run' = IF pc' = "ready"
                    THEN [step |-> 6, today |-> run.today, trends |-> call'.ret]
                    ELSE run
       \/ /\ pc' = "ready"
          /\ call' = [op |-> "calculate_trends",
                      args |-> [date |-> run.today,
                                today_data |-> run.today_repos,
                                ai_summaries |-> <<ai_summary_map(run.ai_summaries)>>],
                      written |-> 0, replaced |-> 0, same |-> TRUE,
                      outcome |-> "raised", error |-> "sqlite3.Error"]
          /\ run' = [step |-> 6, today |-> run.today,
                     trends |-> EmptyTrends(run.today)]
          /\ UNCHANGED <<repos_daily, repos_history, txn, upserted>>
    /\ UNCHANGED <<repos_details, saved, now, tz, DB_RETENTION_DAYS,
                   SURGE_THRESHOLD, environ>>

\* Step 5: trends = analyzer.calculate_trends(today_repos, today, ai_summary_map)
\* The call returns, or it ends in an exception that main() does not catch
\* before its "except Exception": of the Store's read, of the loop of
\* _calculate_deltas, or of the Store's write.
RunCalculateTrends ==
    /\ pc = "ready"
    /\ run.step = 5
    /\ \/ CalculateTrendsStep(run.today, run.today_repos,
                               <<ai_summary_map(run.ai_summaries)>>)
       \/ YesterdayReadFails(run.today, run.today_repos,
                              <<ai_summary_map(run.ai_summaries)>>)
    /\ run' = IF pc' = "ready"
              THEN [step |-> 6, today |-> run.today, trends |-> call'.ret]
              ELSE run
    /\ UNCHANGED <<repos_details, saved, now, tz, DB_RETENTION_DAYS,
                   SURGE_THRESHOLD, environ>>

\* Steps 6 to 8 with the cleanup in a "finally:" of theirs: it runs although
\* they raised.
RunReportThenCleanup ==
    /\ pc = "ready"
    /\ run.step = 6
    /\ \E raised \in BOOLEAN :
          /\ pc' = IF raised THEN "failed" ELSE "ready"
          /\ run' = IF raised THEN run ELSE [step |-> 9, today |-> run.today]
          /\ IF raised
             THEN cleanup_old_data([days |-> DB_RETENTION_DAYS])
             ELSE /\ call' = [op |-> "report", outcome |-> "ok"]
                  /\ UNCHANGED <<repos_daily, repos_history>>
    /\ UNCHANGED <<repos_details, txn, upserted, saved, now, tz,
                   DB_RETENTION_DAYS, SURGE_THRESHOLD, environ>>

\* Steps 6 to 8: the e-mail is rendered and sent and the site generated from
\* trends; they read the store and may raise.
RunReport ==
    /\ pc = "ready"
    /\ run.step = 6
    /\ \E raised \in BOOLEAN :
          /\ pc' = IF raised THEN "failed" ELSE "ready"
          /\ run' = IF raised THEN run ELSE [step |-> 9, today |-> run.today]
          /\ call' = [op |-> "report",
                      outcome |-> IF raised THEN "raised" ELSE "ok"]
    /\ UNCHANGED <<repos_daily, repos_history, repos_details, txn, upserted,
                   saved, now, tz, DB_RETENTION_DAYS, SURGE_THRESHOLD, environ>>

\* Step 9: deleted = db.cleanup_old_data(DB_RETENTION_DAYS)
RunCleanup ==
    /\ pc = "ready"
    /\ run.step = 9
    /\ cleanup_old_data([days |-> DB_RETENTION_DAYS])
    /\ run' = [step |-> 10, today |-> run.today]
    /\ UNCHANGED <<repos_details, txn, pc, upserted, saved, now, tz,
                   DB_RETENTION_DAYS, SURGE_THRESHOLD, environ>>

\* The run is complete: "finally: db.close()" and the process ends.
RunExit ==
    /\ pc = "ready"
    /\ run.step = 10
    /\ run' = NoRun
    /\ UNCHANGED <<repos_daily, repos_history, repos_details, txn, pc, call,
                   upserted, saved, now, tz, DB_RETENTION_DAYS, SURGE_THRESHOLD, environ>>

(***************************************************************************)
(* main_fetch_only() (src/src/main.py): fetch and store, no trends         *)
(***************************************************************************)

\* today = get_today_date(), then steps 1 and 2 and the answer of the text
\* service, which are inputs.  A run of main_fetch_only is at step 3 from
\* then on, before one of the two calls that step makes.
FetchOnlyStart(repos, ai_summaries) ==
    /\ pc = "ready"
    /\ run = NoRun
    /\ run' = [step |-> 3, entry |-> "main_fetch_only",
               before_call |-> "save_repo_details",
               today |-> get_today_date(now), repos |-> repos,
               ai_summaries |-> ai_summaries]
    /\ call' = [op |-> "main_fetch_only"]
    /\ UNCHANGED <<repos_daily, repos_history, repos_details, txn, pc, upserted,
                   saved, now, tz, DB_RETENTION_DAYS, SURGE_THRESHOLD, environ>>

\* Step 3, first call: db.save_repo_details(ai_summaries)
FetchOnlySaveDetails ==
    /\ pc = "ready"
    /\ run.step = 3
    /\ run.before_call = "save_repo_details"
    /\ \E k \in 0..DetailsWritable(run.ai_summaries) :
          save_repo_details(run.ai_summaries, k)
    /\ run' = IF pc' = "ready"
              THEN [run EXCEPT !.before_call = "save_today_data"]
              ELSE run
    /\ UNCHANGED <<repos_daily, repos_history, upserted, now, tz,
                   DB_RETENTION_DAYS, SURGE_THRESHOLD, environ>>

\* Step 3, second call: db.save_today_data(today, repos), with the records
\* as fetched; then "finally: db.close()" and the process ends.
FetchOnlySaveToday ==
    /\ pc = "ready"
    /\ run.step = 3
    /\ run.before_call = "save_today_data"
    /\ \E k \in 0..Writable(run.repos) :
          save_today_data(run.today, run.repos, k,
                          [op |-> "save_today_data", by |-> "main_fetch_only",
                           args |-> [date |-> run.today,
                                     today_data |-> run.repos]])
    /\ run' = IF pc' = "ready" THEN NoRun ELSE run
    /\ UNCHANGED <<repos_details, saved, now, tz, DB_RETENTION_DAYS,
                   SURGE_THRESHOLD, environ>>

\* The hours the clock of the model runs through: the days snapshots are
\* stored for.
FirstHour == 24 * (CHOOSE d \in Days : \A e \in Days : d <= e)
LastHour == 24 * (CHOOSE d \in Days : \A e \in Days : d >= e) + 23

\* Twelve hours pass, during a run or between two.
Tick ==
    /\ now + 12 <= LastHour
    /\ now' = now + 12
    /\ UNCHANGED <<repos_daily, repos_history, repos_details, txn, pc, call,
                   upserted, saved, tz, DB_RETENTION_DAYS, SURGE_THRESHOLD, environ, run>>

(***************************************************************************)
(* Spec: the snapshot store under arbitrary calls                          *)
(***************************************************************************)

Init ==
    /\ repos_daily = EmptyTable
    /\ repos_history = EmptyTable
    /\ repos_details = <<>>
    /\ txn = NoTxn
    /\ pc = "ready"
    /\ call = [op |-> "init_db"]
    /\ upserted = [d \in DateTexts |-> <<>>]
    /\ saved = <<>>
    /\ now = 20455 * 24 + 12
    /\ tz = 0
    /\ DB_RETENTION_DAYS = 90
    /\ SURGE_THRESHOLD = 3000
    /\ environ = EmptyDict
    /\ run = NoRun

Next ==
    \/ \E d \in Days, b \in Batches : SaveTodayData(StrFTime(d), b)
    \/ ExitAfterFailure
    \/ \E a \in CleanupArgs : CleanupOldData(a)

Spec == Init /\ [][Next]_vars

(***************************************************************************)
(* SpecDetails: the enrichment cache beside snapshot writes and retention  *)
(***************************************************************************)

\* The snapshot lists of this specification: nothing, one record, two.
SmallBatches == {<<>>, <<RepoA1>>, <<RepoA2, RepoB1>>}

NextDetails ==
    \/ \E ds \in DetailBatches : SaveRepoDetails(ds)
    \/ \E d \in Days, b \in SmallBatches : SaveTodayData(StrFTime(d), b)
    \/ ExitAfterFailure
    \/ \E a \in CleanupArgs : CleanupOldData(a)

SpecDetails == Init /\ [][NextDetails]_vars

(***************************************************************************)
(* SpecTrends: calculate_trends called for any day, list and summaries     *)
(***************************************************************************)

\* The ai_summaries argument: None, or a dict that knows bob/b.
SummaryChoices == {<<>>, <<ai_summary_map(<<DetailB1>>)>>}

NextTrends ==
    \/ \E d \in Days, T \in TrendInputs, ai \in SummaryChoices :
          CalculateTrends(StrFTime(d), T, ai)
    \/ SaveRepoDetails(<<DetailA1, DetailB1>>)
    \/ ExitAfterFailure

SpecTrends == Init /\ [][NextTrends]_vars

(***************************************************************************)
(* SpecRun: batch runs of main() on hosts of any zone, as the clock runs   *)
(***************************************************************************)

\* What the fetch returns and what the text service answers.
RunLists == {DayOne, DayTwo, <<RepoA2, RepoBad>>}
RunSummaries == {<<>>, <<DetailA1>>, <<DetailB1>>, <<DetailBad>>}

InitRun ==
    /\ repos_daily = EmptyTable
    /\ repos_history = EmptyTable
    /\ repos_details = <<>>
    /\ txn = NoTxn
    /\ pc = "ready"
    /\ call = [op |-> "init_db"]
    /\ upserted = [d \in DateTexts |-> <<>>]
    /\ saved = <<>>
    /\ now = FirstHour
    /\ tz \in Zones
    /\ DB_RETENTION_DAYS \in RetentionChoices
    /\ SURGE_THRESHOLD = 3000
    /\ environ = EmptyDict
    /\ run = NoRun

NextRun ==
    \/ \E T \in RunLists, ds \in RunSummaries : RunStart(T, ds)
    \/ RunSaveDetails
    \/ RunCalculateTrends
    \/ RunReport
    \/ RunCleanup
    \/ RunExit
    \/ ExitAfterFailure
    \/ Tick

SpecRun == InitRun /\ [][NextRun]_vars

(***************************************************************************)
(* SpecAnalyze: one call of calculate_trends on a store that holds the     *)
(* snapshot of the day before, for any configuration of the process        *)
(***************************************************************************)

\* The entities of the long lists.
Entity(i) == "org/e" \o ToString(i)

\* updated_at of the record at position r: the date a timestamp begins
\* with, "" at every fourth position; two positions in 13 share a date.
UpdatedAt(r) == IF r % 4 = 0 THEN <<>> ELSE StrFTime(20400 + ((r * 7) % 13))

\* A fetched list: the record at position r has rank r (fetch numbers the
\* records as it appends them) and carries the description GitHub has.
Fetched(ids, stars) ==
    [r \in 1..Len(ids) |->
        [description |-> "about " \o Entity(ids[r])]
        @@ Repo(Entity(ids[r]), "org", r, stars[r], r, UpdatedAt(r))]

\* The day before: 21 entities; e3, e4, e5 lead e2.
BigYesterday ==
    Fetched(<<1, 3, 4, 5, 2, 6, 7, 8, 9, 10, 11, 12, 13, 14, 30, 16, 17, 18,
              19, 20, 31>>,
            <<1000, 100, 331, 10000, 100, 500, 200, 300, 300, 400, 50, 60, 70,
              0, 33, 80, 17, 18, 19, 20, 5>>)

\* Today: 22 entities.  e2 has climbed from rank 5 to rank 2 and from 100 to
\* 150 stars; e3 has grown by exactly 0.3, e4 by 99 stars and 0.2991, e5 by
\* 2999 stars and 0.2999; seven entities have gained and seven have lost
\* stars, some by the same amount; e14 had no stars; e15, e21 and e22 are
\* new, e30 and e31 are gone.
BigFetched ==
    Fetched(<<1, 2, 3, 4, 5, 6, 7, 8, 9, 10, 11, 12, 13, 14, 15, 16, 17, 18,
              19, 20, 21, 22>>,
            <<1000, 150, 130, 430, 12999, 550, 230, 290, 280, 390, 45, 20, 50,
              10, 75, 79, 17, 18, 19, 20, 21, 22>>)

\* The same list as a caller hands it over: the record of e15 carries delta
\* values of an earlier calculation, and that of e16 has updated_at None.
BigToday ==
    [r \in 1..Len(BigFetched) |->
        IF r = 15
        THEN [rank_delta |-> 4, stars_delta |-> 7, stars_rate |-> 5000]
             @@ BigFetched[r]
        ELSE IF r = 16
        THEN [k \in DOMAIN BigFetched[r] \ {"updated_at"} |-> BigFetched[r][k]]
        ELSE BigFetched[r]]

\* today_data of the one call, and the list stored for the day before.
AnalyzeInputs == {<<>>, DayTwo, Take(BigToday, 6), BigToday}
AnalyzeYesterdays == {<<>>, DayOne, BigYesterday}

\* Enrichment records of the store: of e2, of e22 (new, ranked below 20) and
\* of e30 (gone today).
AnalyzeDetails ==
    <<Detail(Entity(2), "org", "two", <<"x">>, "tool", "gongju"),
      Detail(Entity(22), "org", "twenty-two", <<>>, "docs", "wendang"),
      Detail(Entity(30), "org", "thirty", <<"y">>, "plugin", "chajian")>>

\* The ai_summaries argument: None, the dict main builds from the answer of
\* the text service for today's records, or an empty dict.
AnalyzeSummaries ==
    {<<>>, <<ai_summary_map(Take(AnalyzeDetails, 2))>>, <<EmptyDict>>}

AnalyzeDate == StrFTime(20454)

\* The store after save_today_data(the day before, Y) and, or not, after
\* save_repo_details(AnalyzeDetails), in a process of any environment.
InitAnalyze ==
    /\ \E Y \in AnalyzeYesterdays :
          LET w == save_loop([daily |-> EmptyTable, history |-> EmptyTable],
                             StrFTime(StrPTime(AnalyzeDate) - 1), Y, Len(Y))
          IN  /\ repos_daily = w.daily
              /\ repos_history = w.history
              /\ upserted = [d \in DateTexts |->
                               IF d = StrFTime(StrPTime(AnalyzeDate) - 1)
                               THEN Upserts(<<>>, Y) ELSE <<>>]
    /\ \E n \in {0, Len(AnalyzeDetails)} :
          /\ repos_details = details_loop(<<>>, AnalyzeDetails, n)
          /\ saved = Saves(<<>>, Take(AnalyzeDetails, n))
    /\ txn = NoTxn
    /\ pc = "ready"
    /\ call = [op |-> "init_db"]
    /\ now = 20455 * 24 + 12
    /\ tz = 0
    /\ DB_RETENTION_DAYS = 90
    /\ environ \in Environs
    /\ SURGE_THRESHOLD = _get_env_float(environ, "SURGE_THRESHOLD", 3000)
    /\ run = NoRun

\* The one call: calculate_trends(today_data, date, ai_summaries).
Analyze(T, ai) ==
    /\ call.op = "init_db"
    /\ CalculateTrends(AnalyzeDate, T, ai)

NextAnalyze ==
    \/ \E T \in AnalyzeInputs, ai \in AnalyzeSummaries : Analyze(T, ai)
    \/ ExitAfterFailure

SpecAnalyze == InitAnalyze /\ [][NextAnalyze]_vars

(***************************************************************************)
(* SpecIngest: runs of main() and of main_fetch_only(), one after the      *)
(* other, on a UTC host that keeps 90 days                                 *)
(***************************************************************************)

\* What the fetch returns and what the text service answers.
IngestLists == {DayOne, DayTwo}
IngestSummaries == {<<>>, <<DetailB1>>}

InitIngest ==
    /\ repos_daily = EmptyTable
    /\ repos_history = EmptyTable
    /\ repos_details = <<>>
    /\ txn = NoTxn
    /\ pc = "ready"
    /\ call = [op |-> "init_db"]
    /\ upserted = [d \in DateTexts |-> <<>>]
    /\ saved = <<>>
    /\ now = FirstHour
    /\ tz = 0
    /\ DB_RETENTION_DAYS = 90
    /\ SURGE_THRESHOLD = 3000
    /\ environ = EmptyDict
    /\ run = NoRun

NextIngest ==
    \/ \E T \in IngestLists, ds \in IngestSummaries : RunStart(T, ds)
    \/ RunSaveDetails
    \/ RunCalculateTrends
    \/ RunReport
    \/ RunCleanup
    \/ RunExit
    \/ \E T \in IngestLists, ds \in IngestSummaries : FetchOnlyStart(T, ds)
    \/ FetchOnlySaveDetails
    \/ FetchOnlySaveToday
    \/ ExitAfterFailure
    \/ Tick

SpecIngest == InitIngest /\ [][NextIngest]_vars

(***************************************************************************)
(* Claims about the snapshot store, checked under Spec                     *)
(***************************************************************************)

NoDuplicate(rows) ==
    \A i, j \in 1..Len(rows) : i # j => rows[i].repo_name # rows[j].repo_name

\* C1: after any sequence of save_today_data and cleanup_old_data calls,
\* repos_daily holds at most one row per (date, repo_name), and that row
\* carries the values of the most recent upsert for the pair.
C1_OneRowPerDateAndRepo ==
    \A d \in DateTexts :
       /\ NoDuplicate(repos_daily[d])
       /\ \A i \in 1..Len(repos_daily[d]) :
             LET r == repos_daily[d][i]
             IN  /\ r.repo_name \in DOMAIN upserted[d]
                 /\ r = upserted[d][r.repo_name]

\* A committed save has replaced a row of its date by one with other
\* values, and an earlier date still holds its rows.
C1_Witness ==
    /\ call.op = "save_today_data"
    /\ call.outcome = "ok"
    /\ call.replaced > 0
    /\ ~call.same
    /\ \A d \in {StrFTime(x) : x \in Days} : repos_daily[d] # <<>>

\* C2: repos_history and repos_daily have the same (repo_name, date) keys
\* in every reachable state, and for each key the history point's rank,
\* stars and forks are those of the snapshot record.
C2_HistoryInLockstep ==
    \A d \in DateTexts :
       /\ Len(repos_history[d]) = Len(repos_daily[d])
       /\ NoDuplicate(repos_history[d])
       /\ \A i \in 1..Len(repos_daily[d]) :
             \E j \in 1..Len(repos_history[d]) :
                /\ repos_history[d][j].repo_name = repos_daily[d][i].repo_name
                /\ repos_history[d][j]
                     = Pick(repos_daily[d][i], {"repo_name", "rank", "stars", "forks"})

\* A cleanup has deleted rows and left others, in both tables.
C2_Witness ==
    /\ call.op = "cleanup_old_data"
    /\ call.ret > 0
    /\ \E d \in DateTexts : Len(repos_daily[d]) = 2 /\ Len(repos_history[d]) = 2

\* C3: a save_today_data that fails or is interrupted after writing some of
\* its records leaves the database file as it was, and so does the exit
\* that follows; a process that is ready to read has no uncommitted write
\* in its view.  No reader sees a part of the batch.
C3_SaveIsAtomic ==
    [][/\ (call'.op = "save_today_data" /\ call'.outcome # "ok")
            => /\ \A d \in DateTexts :
                     get_repos_by_date(repos_daily', d)
                       = get_repos_by_date(repos_daily, d)
               /\ repos_daily' = repos_daily
               /\ repos_history' = repos_history
       /\ pc' = "ready" => txn' = NoTxn
      ]_vars

\* A call has ended after writing a part of its batch: the connection's
\* view holds rows the file does not.
C3_Witness ==
    /\ pc = "failed"
    /\ call.written >= 1
    /\ txn.daily # repos_daily
    /\ \E d \in DateTexts : Len(txn.daily[d]) > Len(repos_daily[d])

\* C4: in every reachable store, for every date D and record list X that
\* save_today_data accepts, saving (D, X) twice leaves the rows of
\* repos_daily and repos_history as saving it once does.
C4_SaveTwiceIsSaveOnce ==
    \A d \in Days, X \in Batches :
       Writable(X) = Len(X) =>
          LET S     == [daily |-> repos_daily, history |-> repos_history]
              once  == save_committed(S, StrFTime(d), X, Len(X))
              twice == save_committed(once, StrFTime(d), X, Len(X))
          IN  twice = once

\* A committed save of a list that repeats an entity has replaced rows and
\* left the store as it found it: the store already was the result of
\* that save.
C4_Witness ==
    /\ call.op = "save_today_data"
    /\ call.outcome = "ok"
    /\ call.written = 2
    /\ call.replaced = 2
    /\ call.same

\* The dates get_yesterday_data is asked about: the stored days and the
\* day after the last.
QueryDays == Days \cup {d + 1 : d \in Days}

\* C6: get_yesterday_data(D) returns exactly the stored rows of calendar
\* day D-1, by rank ascending, and nothing when D-1 has no rows, whatever
\* older days hold.
C6_YesterdayIsTheDayBefore ==
    \A D \in QueryDays :
       LET res    == get_yesterday_data(repos_daily, StrFTime(D))
           stored == repos_daily[StrFTime(D - 1)]
       IN  /\ Len(res) = Len(stored)
           /\ Range(res) = Range(stored)
           /\ \A i, j \in 1..Len(res) : i < j => res[i].rank <= res[j].rank
           /\ stored = <<>> => res = <<>>

\* 2026-01-01 has no rows while 2025-12-31 holds two, stored in an order
\* that is not the order of their ranks.
C6_Witness ==
    /\ repos_daily[StrFTime(20454)] = <<>>
    /\ Len(repos_daily[StrFTime(20453)]) = 2
    /\ repos_daily[StrFTime(20453)][1].rank > repos_daily[StrFTime(20453)][2].rank

\* C8: cleanup_old_data removes from both tables exactly the rows dated
\* strictly before the cutoff, keeps the others, and returns the number of
\* rows it removed from the two tables together.
C8_CleanupDeletesBeforeCutoff ==
    [][call'.op = "cleanup_old_data" =>
         LET old == {d \in DateTexts : StrPTime(d) < StrPTime(call'.cutoff)}
         IN  /\ \A d \in old :
                   repos_daily'[d] = <<>> /\ repos_history'[d] = <<>>
             /\ \A d \in DateTexts \ old :
                   /\ repos_daily'[d] = repos_daily[d]
                   /\ repos_history'[d] = repos_history[d]
             /\ call'.ret = SumLen(repos_daily, old) + SumLen(repos_history, old)
      ]_vars

\* A cleanup has removed rows and kept rows dated exactly the cutoff.
C8_Witness ==
    /\ call.op = "cleanup_old_data"
    /\ call.ret >= 2
    /\ call.cutoff \in DateTexts
    /\ repos_daily[call.cutoff] # <<>>
    /\ repos_history[call.cutoff] # <<>>

(***************************************************************************)
(* Claims about the analyzer, checked under SpecTrends                     *)
(***************************************************************************)

\* C5: once a calculate_trends for date D has returned and its snapshot is
\* committed, calculate_trends for the same D, the same list and the same
\* summaries returns and gives the same result: the same date and the same
\* seven buckets.
C5_RerunGivesSameBuckets ==
    (call.op = "calculate_trends" /\ call.outcome = "ok") =>
        LET again == calculate_trends(Store, call.args.date, call.args.today_data,
                                      call.args.ai_summaries, SURGE_THRESHOLD)
        IN  /\ again.ok
            /\ again.ret = call.ret

\* A calculate_trends has returned that was itself such a re-run: it found
\* the two rows of its date and rewrote them as they were, and its result
\* has a riser, a new entry and a dropped one.
C5_Witness ==
    /\ call.op = "calculate_trends"
    /\ call.outcome = "ok"
    /\ call.replaced = 2
    /\ call.same
    /\ call.ret.rising_top5 # <<>>
    /\ call.ret.new_entries # <<>>
    /\ call.ret.dropped_entries # <<>>

(***************************************************************************)
(* Claims about the enrichment cache, checked under SpecDetails            *)
(***************************************************************************)

\* C7: after any sequence of save_repo_details calls, repos_details holds at
\* most one record per repo_name; get_repo_details(e) and
\* get_all_repo_details()[e] return the values of the most recent save for
\* e; get_repo_details returns nothing for an entity never saved.
C7_OneDetailPerRepoMostRecent ==
    /\ NoDuplicate(repos_details)
    /\ DOMAIN get_all_repo_details(repos_details) = DOMAIN saved
    /\ \A e \in RepoNames :
          IF e \in DOMAIN saved
          THEN /\ get_repo_details(repos_details, e) = <<saved[e]>>
               /\ get_all_repo_details(repos_details)[e] = saved[e]
          ELSE get_repo_details(repos_details, e) = <<>>

\* A committed save has replaced the record of one entity by another, and
\* the other entity was never saved.
C7_Witness ==
    /\ call.op = "save_repo_details"
    /\ call.outcome = "ok"
    /\ call.replaced > 0
    /\ ~call.same
    /\ get_repo_details(repos_details, "acme/a") # <<>>
    /\ get_repo_details(repos_details, "bob/b") = <<>>

\* C9: neither cleanup_old_data, for any retention value and store, nor
\* save_today_data changes repos_details.
C9_DetailsOutliveRetention ==
    [][call'.op \in {"cleanup_old_data", "save_today_data"}
         => /\ repos_details' = repos_details
            /\ get_all_repo_details(repos_details')
                 = get_all_repo_details(repos_details)
      ]_vars

\* A cleanup has removed snapshot rows from a store that holds the
\* enrichment of both entities.
C9_Witness ==
    /\ call.op = "cleanup_old_data"
    /\ call.ret > 0
    /\ Len(repos_details) = 2

(***************************************************************************)
(* Claims about the batch run, checked under SpecRun                       *)
(***************************************************************************)

\* C10: for a retention horizon R >= 1, the retention step of a batch run
\* that stored its snapshot under the date D keeps the rows dated D - R and
\* deletes the rows dated D - R - 1, in both tables.
C10_RetentionKeepsHorizon ==
    [][(run.step = 9 /\ run'.step = 10 /\ DB_RETENTION_DAYS >= 1) =>
         LET D    == StrPTime(run.today)
             kept == StrFTime(D - DB_RETENTION_DAYS)
             gone == StrFTime(D - DB_RETENTION_DAYS - 1)
         IN  /\ kept \in DateTexts =>
                   /\ repos_daily'[kept] = repos_daily[kept]
                   /\ repos_history'[kept] = repos_history[kept]
             /\ gone \in DateTexts =>
                   /\ repos_daily'[gone] = <<>>
                   /\ repos_history'[gone] = <<>>
      ]_vars

\* On a host twelve hours east of UTC a run that stored its snapshot under
\* 2026-01-01 has finished its retention step with a horizon of one day,
\* and the rows of 2025-12-31 are gone.
C10_Witness ==
    /\ run.step = 10
    /\ run.today = StrFTime(20454)
    /\ DB_RETENTION_DAYS = 1
    /\ tz = 12
    /\ call.op = "cleanup_old_data"
    /\ call.ret > 0
    /\ repos_daily[StrFTime(20453)] = <<>>
    /\ repos_daily[StrFTime(20454)] # <<>>

(***************************************************************************)
(* Claims about the batch run, checked under SpecRun                       *)
(***************************************************************************)

\* The (date, repo_name) pairs a table holds a row for.
KeysOf(table) ==
    UNION {{<<d, table[d][i].repo_name>> : i \in 1..Len(table[d])} :
              d \in DOMAIN table}

\* The steps of main() in the order of its text: a run is at step 4 once the
\* fetch and the text service have answered, and at step 10 after the cleanup.
StepOrder == {<<0, 4>>, <<4, 5>>, <<5, 6>>, <<6, 9>>, <<9, 10>>}

\* C11: in a batch run cleanup_old_data is invoked at most once and only
\* after every other step (enrichment save, trend calculation and snapshot
\* upsert, e-mail, web generation) has completed; when an earlier step raises
\* or is interrupted, the run deletes no snapshot and no history row.  As a
\* property of every step: a run advances only in the order of its steps and
\* only when the step returned, the cleanup is the step from 9 to 10, and no
\* other step loses a (date, repo_name) of either table.
C11_CleanupOnlyAfterAllSteps ==
    [][/\ run'.step # run.step =>
             \/ run' = NoRun
             \/ /\ <<run.step, run'.step>> \in StepOrder
                /\ pc = "ready"
                /\ pc' = "ready"
       /\ (call'.op = "cleanup_old_data"
              /\ (call.op # "cleanup_old_data" \/ run'.step # run.step)
              /\ run' # NoRun) =>
             (run.step = 9 /\ run'.step = 10)
       /\ ~(run.step = 9 /\ run'.step = 10) =>
             /\ KeysOf(repos_daily) \subseteq KeysOf(repos_daily')
             /\ KeysOf(repos_history) \subseteq KeysOf(repos_history')
      ]_vars

\* A run has reached its end and its cleanup, the last step, deleted rows.
C11_Witness ==
    /\ run.step = 10
    /\ pc = "ready"
    /\ call.op = "cleanup_old_data"
    /\ call.ret > 0

(***************************************************************************)
(* Claims about the analyzer, checked under SpecAnalyze                    *)
(***************************************************************************)

\* A call of calculate_trends has been made / has returned.
Called == call.op = "calculate_trends"
Returned == Called /\ call.outcome = "ok"

\* What the call was given and what it read: today's list, and the mapping
\* of the day before (the call writes no row of that day).
GivenToday == call.args.today_data
ReadYesterday == yesterday_map(get_yesterday_data(repos_daily, call.args.date))

DeltaKeys == {"rank_delta", "stars_delta", "stars_rate"}

\* r, in ten-thousandths, is n / d rounded to 4 decimals: no number of
\* ten-thousandths is nearer to the quotient.
IsRounded4(r, n, d) ==
    LET diff == r * d - n * 10000
    IN  2 * (IF diff < 0 THEN 0 - diff ELSE diff) <= d

\* C12: _calculate_deltas sets, for every entity of today's list: when the
\* entity is a key of yesterday's mapping, rank_delta = yesterday.rank -
\* today.rank, stars_delta = today.stars - yesterday.stars and stars_rate =
\* stars_delta / yesterday.stars rounded to 4 decimals when yesterday.stars
\* > 0, else 0; when it is not, all three are 0 whatever the record carried.
\* It changes nothing else of the record, and the records the call returns
\* as top_20 carry these values.
C12_DeltasAgainstYesterday ==
    Called =>
        LET T == GivenToday
            Y == ReadYesterday
            D == _calculate_deltas(T, Y)
        IN  /\ Len(D) = Len(T)
            /\ \A i \in 1..Len(T) :
                  /\ DeltaKeys \subseteq DOMAIN D[i]
                  /\ \A k \in DOMAIN T[i] \ DeltaKeys :
                        k \in DOMAIN D[i] /\ D[i][k] = T[i][k]
                  /\ IF T[i].repo_name \in DOMAIN Y
                     THEN LET y == Y[T[i].repo_name]
                          IN  /\ D[i].rank_delta = y.rank - T[i].rank
                              /\ D[i].stars_delta = T[i].stars - y.stars
                              /\ IF y.stars > 0
                                 THEN IsRounded4(D[i].stars_rate,
                                                 D[i].stars_delta, y.stars)
                                 ELSE D[i].stars_rate = 0
                     ELSE /\ D[i].rank_delta = 0
                          /\ D[i].stars_delta = 0
                          /\ D[i].stars_rate = 0
            /\ Returned =>
                  \A i \in 1..Len(call.ret.top_20) :
                     Pick(call.ret.top_20[i], DeltaKeys) = Pick(D[i], DeltaKeys)

\* The long list has been analyzed against the long list of the day before:
\* e2 went from rank 5 to rank 2 and from 100 to 150 stars, e14 had no
\* stars, and e15, new, came with delta values.
C12_Witness ==
    /\ Returned
    /\ GivenToday = BigToday
    /\ GivenToday[15].stars_delta = 7
    /\ Entity(2) \in DOMAIN ReadYesterday
    /\ ReadYesterday[Entity(2)].rank = 5
    /\ call.ret.top_20[2].rank_delta = 3
    /\ call.ret.top_20[2].stars_delta = 50
    /\ call.ret.top_20[2].stars_rate = 5000
    /\ call.ret.top_20[14].stars_delta = 10
    /\ call.ret.top_20[14].stars_rate = 0
    /\ call.ret.top_20[15].stars_delta = 0

\* The repo_name of each record of a list.
NamesOf(list) == [i \in DOMAIN list |-> list[i].repo_name]

\* C13: new_entries holds exactly the entities of today's list T whose
\* repo_name is not a key of yesterday's mapping Y, in the order of T, and
\* |new_entries| + |T \cap Y| = |T|.
C13_NewEntriesAreTodayMinusYesterday ==
    Returned =>
        LET T   == GivenToday
            Y   == ReadYesterday
            new == call.ret.new_entries
            pos == SelectSeq(Indices(T),
                             LAMBDA i : T[i].repo_name \notin DOMAIN Y)
        IN  /\ Len(new) = Len(pos)
            /\ \A i \in 1..Len(pos) :
                  /\ new[i].repo_name = T[pos[i]].repo_name
                  /\ new[i].rank = T[pos[i]].rank
                  /\ new[i].stars = T[pos[i]].stars
            /\ Range(NamesOf(new)) = Range(NamesOf(T)) \ DOMAIN Y
            /\ Cardinality(Range(NamesOf(new)))
                  + Cardinality(Range(NamesOf(T)) \cap DOMAIN Y)
               = Cardinality(Range(NamesOf(T)))

\* Of the 22 entities of the long list, 19 were there the day before; e15,
\* e21 and e22 are new and come out in that order.
C13_Witness ==
    /\ Returned
    /\ GivenToday = BigToday
    /\ Cardinality(DOMAIN ReadYesterday) = 21
    /\ NamesOf(call.ret.new_entries) = <<Entity(15), Entity(21), Entity(22)>>
    /\ Cardinality(Range(NamesOf(GivenToday)) \cap DOMAIN ReadYesterday) = 19

\* The floor the process was started with: the number the environment
\* variable SURGE_ABSOLUTE_FLOOR gives, 100 when it is not set.
SURGE_ABSOLUTE_FLOOR ==
    IF "SURGE_ABSOLUTE_FLOOR" \in DOMAIN environ
    THEN environ.SURGE_ABSOLUTE_FLOOR.float[1] \div 10000
    ELSE 100

\* surging is, in today's order, the records whose stars_rate is at least
\* SURGE_THRESHOLD or whose stars_delta is at least floor.
SurgingBy(floor) ==
    Returned =>
        LET D   == _calculate_deltas(GivenToday, ReadYesterday)
            pos == SelectSeq(Indices(D),
                             LAMBDA i : \/ D[i].stars_rate >= SURGE_THRESHOLD
                                        \/ D[i].stars_delta >= floor)
        IN  /\ Len(call.ret.surging) = Len(pos)
            /\ \A i \in 1..Len(pos) :
                  /\ call.ret.surging[i].repo_name = D[pos[i]].repo_name
                  /\ call.ret.surging[i].rank = D[pos[i]].rank
                  /\ call.ret.surging[i].stars_rate = D[pos[i]].stars_rate
                  /\ call.ret.surging[i].stars_delta = D[pos[i]].stars_delta

PosOf(entry) == CHOOSE i \in 1..Len(GivenToday) :
                   GivenToday[i].repo_name = entry.repo_name

\* bucket is the first five of the records of D that move in the direction
\* sign (1 up, -1 down), the larger move first and, of two equal moves, the
\* record that comes first in today's list.
IsTopMovers(bucket, D, sign) ==
    LET movers == {i \in 1..Len(D) : sign * D[i].stars_delta > 0}
        chosen == {PosOf(bucket[i]) : i \in 1..Len(bucket)}
        Before(p, q) == \/ sign * D[p].stars_delta > sign * D[q].stars_delta
                        \/ /\ D[p].stars_delta = D[q].stars_delta
                           /\ p < q
    IN  /\ Len(bucket) = IF Cardinality(movers) < 5 THEN Cardinality(movers) ELSE 5
        /\ Cardinality(chosen) = Len(bucket)
        /\ chosen \subseteq movers
        /\ \A i \in 1..Len(bucket) :
              bucket[i].stars_delta = D[PosOf(bucket[i])].stars_delta
        /\ \A i \in 1..(Len(bucket) - 1) :
              Before(PosOf(bucket[i]), PosOf(bucket[i + 1]))
        /\ \A p \in movers \ chosen : \A q \in chosen : Before(q, p)

\* C16: rising_top5 is the first 5 entities of today's list with stars_delta
\* > 0 sorted by stars_delta descending, falling_top5 the first 5 with
\* stars_delta < 0 sorted ascending; entities of equal stars_delta keep
\* their order in today's list, and none with stars_delta = 0 is in either.
C16_MoversSortedStableTopFive ==
    Returned =>
        LET D == _calculate_deltas(GivenToday, ReadYesterday)
        IN  /\ IsTopMovers(call.ret.rising_top5, D, 1)
            /\ IsTopMovers(call.ret.falling_top5, D, -1)
            /\ \A i \in 1..Len(call.ret.rising_top5) :
                  call.ret.rising_top5[i].stars_delta > 0
            /\ \A i \in 1..Len(call.ret.falling_top5) :
                  call.ret.falling_top5[i].stars_delta < 0

\* Seven records of the long list have gained and seven have lost stars: e2
\* and e6 have both gained 50, e3 and e7 both 30 (e7 is cut), e9 and e13
\* have both lost 20, e8 and e10 both 10.
C16_Witness ==
    /\ Returned
    /\ GivenToday = BigToday
    /\ NamesOf(call.ret.rising_top5)
          = <<Entity(5), Entity(4), Entity(2), Entity(6), Entity(3)>>
    /\ NamesOf(call.ret.falling_top5)
          = <<Entity(12), Entity(9), Entity(13), Entity(8), Entity(10)>>
    /\ call.ret.rising_top5[3].stars_delta = call.ret.rising_top5[4].stars_delta
    /\ call.ret.top_20[7].stars_delta = call.ret.rising_top5[5].stars_delta
    /\ call.ret.top_20[1].stars_delta = 0

\* The enrichment mapping the call worked with: the argument, or the
\* records of the Store when the argument was None.
UsedSummaries == SummariesOf(call.args.ai_summaries, repos_details)

SummaryKeys ==
    {"summary", "description", "use_case", "solves", "category", "category_zh"}

\* The value a bucket entry has under key k when the enrichment record has
\* none: the empty sequence for solves, the empty string otherwise.
EmptyOf(k) == IF k = "solves" THEN <<>> ELSE ""

\* C17: top_20 is the first min(20, |T|) records of today's list, which is
\* in ascending rank, and every entry has the keys summary, description,
\* use_case, solves, category and category_zh: with the values of the
\* entity's enrichment record when there is one, otherwise with the empty
\* string / the empty sequence, never without the key.
C17_TopTwentyWithAllSummaryKeys ==
    Returned =>
        LET T   == GivenToday
            top == call.ret.top_20
        IN  /\ Len(top) = IF Len(T) < 20 THEN Len(T) ELSE 20
            /\ \A i \in 1..Len(top) :
                  /\ top[i].repo_name = T[i].repo_name
                  /\ top[i].rank = T[i].rank
                  /\ top[i].stars = T[i].stars
                  /\ \A j \in 1..Len(T) : j > i => T[j].rank > top[i].rank
                  /\ SummaryKeys \subseteq DOMAIN top[i]
                  /\ \A k \in SummaryKeys :
                        top[i][k] =
                           IF /\ top[i].repo_name \in DOMAIN UsedSummaries
                              /\ k \in DOMAIN UsedSummaries[top[i].repo_name]
                           THEN UsedSummaries[top[i].repo_name][k]
                           ELSE EmptyOf(k)

\* The long list has 22 records; top_20 ends with the record of rank 20, e2
\* has the values of its enrichment record, and e1, which has none, has the
\* keys with empty values.
C17_Witness ==
    /\ Returned
    /\ Len(GivenToday) = 22
    /\ Len(call.ret.top_20) = 20
    /\ call.ret.top_20[20].rank = 20
    /\ Entity(2) \in DOMAIN UsedSummaries
    /\ call.ret.top_20[2].summary = "two"
    /\ call.ret.top_20[2].solves = <<"x">>
    /\ Entity(1) \notin DOMAIN UsedSummaries
    /\ call.ret.top_20[1].summary = ""
    /\ call.ret.top_20[1].solves = <<>>

\* The positions of today's records that have a non-empty updated_at.
Dated == {i \in 1..Len(GivenToday) :
            Get(GivenToday[i], "updated_at", <<>>) # <<>>}

\* C18: active holds only entities of today's list with a non-empty
\* updated_at, sorted by updated_at descending and cut to at most 10
\* entries (the 10 latest); an entity whose updated_at is empty or missing
\* is never in it.
C18_ActiveLatestTenDated ==
    Returned =>
        LET T      == GivenToday
            active == call.ret.active
            chosen == {PosOf(active[i]) : i \in 1..Len(active)}
        IN  /\ Len(active) = IF Cardinality(Dated) < 10 THEN Cardinality(Dated) ELSE 10
            /\ Cardinality(chosen) = Len(active)
            /\ chosen \subseteq Dated
            /\ \A i \in 1..Len(active) :
                  /\ "updated_at" \in DOMAIN active[i]
                  /\ active[i].updated_at # <<>>
                  /\ active[i].updated_at = T[PosOf(active[i])].updated_at
            /\ \A i \in 1..(Len(active) - 1) :
                  ~LexLess(active[i].updated_at, active[i + 1].updated_at)
            /\ \A p \in Dated \ chosen : \A q \in chosen :
                  ~LexLess(T[q].updated_at, T[p].updated_at)

\* The long list has 17 records with a timestamp, four with an empty one
\* and one with none: active has 10 entries, the first later than the last,
\* and a record with a timestamp is left out.
C18_Witness ==
    /\ Returned
    /\ GivenToday = BigToday
    /\ Cardinality(Dated) = 17
    /\ GivenToday[4].updated_at = <<>>
    /\ "updated_at" \notin DOMAIN GivenToday[16]
    /\ Len(call.ret.active) = 10
    /\ LexLess(call.ret.active[10].updated_at, call.ret.active[1].updated_at)

\* The buckets of the returned results whose entries are records of
\* today's list, and all seven.
TodayBuckets ==
    <<call.ret.top_20, call.ret.rising_top5, call.ret.falling_top5,
      call.ret.new_entries, call.ret.surging, call.ret.active>>
AllBuckets == Append(TodayBuckets, call.ret.dropped_entries)

\* The entry is of an entity the enrichment mapping of the call lacks.
NotEnriched(entry) == entry.repo_name \notin DOMAIN UsedSummaries

\* C20 as stated: for an entity with no Enrichment Record every bucket entry
\* (in top_20, rising_top5, falling_top5, new_entries, dropped_entries,
\* surging and active, also for an entity ranked below 20) has its summary
\* and category fields present and empty, and the run does not fail.
C20_EveryEntryHasEmptySummary ==
    /\ (Called /\ call.outcome # "interrupted") => Returned
    /\ Returned =>
          \A b \in 1..Len(AllBuckets) : \A i \in 1..Len(AllBuckets[b]) :
             LET entry == AllBuckets[b][i]
             IN  NotEnriched(entry) =>
                    /\ {"summary", "category_zh"} \subseteq DOMAIN entry
                    /\ entry.summary = ""
                    /\ entry.category_zh = ""

\* C20 as amended: for an entity with no enrichment record the run does not
\* fail; every bucket entry of a record among the first 20 of today's list
\* has the six summary and category fields present and empty (top_20 sets
\* them on the record the other buckets share); an entry of a record ranked
\* below 20 has of these fields only what the input record carried, and an
\* entry of dropped_entries has none of them.
C20_DefaultsOnlyInFirstTwenty ==
    /\ (Called /\ call.outcome # "interrupted") => Returned
    /\ Returned =>
          /\ \A b \in 1..Len(TodayBuckets) : \A i \in 1..Len(TodayBuckets[b]) :
                LET entry == TodayBuckets[b][i]
                    given == GivenToday[PosOf(entry)]
                IN  NotEnriched(entry) =>
                       IF PosOf(entry) <= 20
                       THEN /\ SummaryKeys \subseteq DOMAIN entry
                            /\ \A k \in SummaryKeys : entry[k] = EmptyOf(k)
                       ELSE \A k \in SummaryKeys :
                               /\ k \in DOMAIN entry <=> k \in DOMAIN given
                               /\ k \in DOMAIN given => entry[k] = given[k]
          /\ \A i \in 1..Len(call.ret.dropped_entries) :
                NotEnriched(call.ret.dropped_entries[i]) =>
                   DOMAIN call.ret.dropped_entries[i] \cap SummaryKeys = {}

\* The long list has been analyzed with an enrichment mapping that knows
\* neither e15 nor e21 nor e31: as new entries, e15 (rank 15) has an empty
\* summary and e21 (rank 21) has none; e31, dropped, has none.
C20_Witness ==
    /\ Returned
    /\ GivenToday = BigToday
    /\ DOMAIN UsedSummaries # {}
    /\ NamesOf(call.ret.new_entries) = <<Entity(15), Entity(21), Entity(22)>>
    /\ NotEnriched(call.ret.new_entries[1])
    /\ call.ret.new_entries[1].summary = ""
    /\ NotEnriched(call.ret.new_entries[2])
    /\ "summary" \notin DOMAIN call.ret.new_entries[2]
    /\ \E i \in 1..Len(call.ret.dropped_entries) :
          /\ call.ret.dropped_entries[i].repo_name = Entity(31)
          /\ "summary" \notin DOMAIN call.ret.dropped_entries[i]

(***************************************************************************)
(* Claims about calls of the analyzer on a growing store, checked under    *)
(* SpecTrends                                                              *)
(***************************************************************************)

\* The Store holds no snapshot row of the day before the date of the call.
NoPriorSnapshot == repos_daily[StrFTime(StrPTime(call.args.date) - 1)] = <<>>

\* C19: when no snapshot is stored for the prior day, calculate_trends
\* completes without error (on records the Store accepts, and unless the
\* process is interrupted) and yields rank_delta = stars_delta = stars_rate
\* = 0 for every entity, new_entries equal to all of today's entities,
\* dropped_entries empty, and rising_top5 and falling_top5 empty.
C19_NoHistoryIsNoError ==
    (/\ Called
     /\ NoPriorSnapshot
     /\ \A i \in 1..Len(GivenToday) : Insertable(GivenToday[i])
     /\ call.outcome # "interrupted") =>
        /\ call.outcome = "ok"
        /\ NamesOf(call.ret.new_entries) = NamesOf(GivenToday)
        /\ \A i \in 1..Len(call.ret.new_entries) :
              /\ call.ret.new_entries[i].rank_delta = 0
              /\ call.ret.new_entries[i].stars_delta = 0
              /\ call.ret.new_entries[i].stars_rate = 0
        /\ call.ret.dropped_entries = <<>>
        /\ call.ret.rising_top5 = <<>>
        /\ call.ret.falling_top5 = <<>>

\* The list of day two has been analyzed for 2026-01-01 on a Store that has
\* rows of that day from an earlier call and none of 2025-12-31.
C19_Witness ==
    /\ Returned
    /\ NoPriorSnapshot
    /\ call.args.date = StrFTime(20454)
    /\ GivenToday = DayTwo
    /\ call.replaced > 0
    /\ NamesOf(call.ret.new_entries) = <<"bob/b", "cat/c">>
    /\ call.ret.top_20[1].stars_delta = 0

(***************************************************************************)
(* Claims about the buckets of a batch run, checked under SpecRun          *)
(***************************************************************************)

\* The run has its trends and has not gone on: step 5 has just returned.
RunHasTrends == run.step = 6 /\ Returned

\* The dropped entries are those of the day before that today lacks, each
\* with yesterday's rank and stars.
DroppedAreYesterdayMinusToday ==
    LET T       == GivenToday
        Y       == ReadYesterday
        dropped == run.trends.dropped_entries
    IN  /\ Range(NamesOf(dropped)) = DOMAIN Y \ Range(NamesOf(T))
        /\ Len(dropped) = Cardinality(DOMAIN Y \ Range(NamesOf(T)))
        /\ \A i \in 1..Len(dropped) :
              /\ dropped[i].yesterday_rank = Y[dropped[i].repo_name].rank
              /\ dropped[i].stars = Y[dropped[i].repo_name].stars

\* C14: in a batch run dropped_entries holds exactly the entities of
\* yesterday's stored snapshot that today's list lacks, each with
\* yesterday's rank and stars, and each with the summary and the category
\* label of its Enrichment Record whenever the Store holds one for it.
C14_DroppedCarryStoredEnrichment ==
    RunHasTrends =>
        /\ DroppedAreYesterdayMinusToday
        /\ \A i \in 1..Len(run.trends.dropped_entries) :
              LET entry  == run.trends.dropped_entries[i]
                  stored == get_repo_details(repos_details, entry.repo_name)
              IN  stored # <<>> =>
                     /\ {"summary", "category_zh"} \subseteq DOMAIN entry
                     /\ entry.summary = stored[1].summary
                     /\ entry.category_zh = stored[1].category_zh

\* The run of the second day has its trends: acme/a, on the list of the day
\* before, is gone, and the Store holds the Enrichment Record the run of
\* the day before saved for it.
C14_Witness ==
    /\ RunHasTrends
    /\ DroppedAreYesterdayMinusToday
    /\ NamesOf(run.trends.dropped_entries) = <<"acme/a">>
    /\ run.trends.dropped_entries[1].yesterday_rank = 1
    /\ run.trends.dropped_entries[1].stars = 100
    /\ get_repo_details(repos_details, "acme/a") # <<>>

(***************************************************************************)
(* Claims about failures of the Store in a batch run, checked under        *)
(* SpecRun                                                                 *)
(***************************************************************************)

\* The keys of the results dict of calculate_trends.
TrendKeys == {"date", "top_20", "rising_top5", "falling_top5", "new_entries",
              "dropped_entries", "surging", "active"}

\* C21: when a read or a write of the Store fails in calculate_trends during
\* a batch run, the failure leaves calculate_trends as an exception: the call
\* returns no results, the run keeps no trends and does not go on to the
\* e-mail or the site, and it ends as a failed run.  As a property of every
\* step: a calculate_trends that did not return leaves the run failed at
\* step 5 without a result; a failed run does nothing but exit; a run
\* reaches step 6 only with the results of a call that returned, all eight
\* keys, made from the whole of today's list after its snapshot was
\* committed; and a report is made only by a run at step 6.
C21_StoreFailureEndsRun ==
    [][/\ (run.step = 5 /\ call' # call /\ call'.op = "calculate_trends"
              /\ call'.outcome # "ok") =>
             /\ pc' = "failed"
             /\ "ret" \notin DOMAIN call'
             /\ run' = run
             /\ "trends" \notin DOMAIN run'
       /\ (pc = "failed" /\ run' # run) => run' = NoRun
       /\ (run'.step = 6 /\ run.step # 6) =>
             /\ run.step = 5
             /\ call'.op = "calculate_trends"
             /\ call'.outcome = "ok"
             /\ run'.trends = call'.ret
             /\ DOMAIN run'.trends = TrendKeys
             /\ Len(run'.trends.top_20)
                   = (IF Len(run.today_repos) < 20 THEN Len(run.today_repos) ELSE 20)
             /\ \A i \in 1..Len(run.today_repos) :
                   <<run.today, run.today_repos[i].repo_name>> \in KeysOf(repos_daily')
       /\ (call' # call /\ call'.op = "report") =>
             /\ run.step = 6
             /\ pc = "ready"
             /\ DOMAIN run.trends = TrendKeys
      ]_vars

\* The Store could not be read at step 5 of a run that had saved an
\* enrichment record: the run has failed where it was and has no trends.
C21_Witness ==
    /\ pc = "failed"
    /\ run.step = 5
    /\ "trends" \notin DOMAIN run
    /\ call.op = "calculate_trends"
    /\ call.outcome = "raised"
    /\ "error" \in DOMAIN call
    /\ repos_details # <<>>

(***************************************************************************)
(* Claims about malformed input of the analyzer, checked under SpecTrends  *)
(***************************************************************************)

\* Today's list has a record without repo_name, and its other records are
\* records the Store accepts.
OneMalformed ==
    /\ \E i \in 1..Len(GivenToday) : "repo_name" \notin DOMAIN GivenToday[i]
    /\ \A i \in 1..Len(GivenToday) :
          "repo_name" \in DOMAIN GivenToday[i] => Insertable(GivenToday[i])

\* The records of today's list that have a repo_name.
WellFormed == SelectSeq(GivenToday, LAMBDA r : "repo_name" \in DOMAIN r)

\* C22: when today's list has a record without the identifier field
\* repo_name, calculate_trends is not aborted (unless the process is
\* interrupted): it returns, the record is skipped, and every well-formed
\* record is annotated with its deltas, stored under the date of the call
\* and classified (the well-formed records are the entries of top_20).
C22_MalformedRecordIsSkipped ==
    (Called /\ OneMalformed /\ call.outcome # "interrupted") =>
        /\ call.outcome = "ok"
        /\ pc = "ready"
        /\ NamesOf(call.ret.top_20) = NamesOf(Take(WellFormed, 20))
        /\ \A i \in 1..Len(call.ret.top_20) :
              DeltaKeys \subseteq DOMAIN call.ret.top_20[i]
        /\ \A i \in 1..Len(WellFormed) :
              <<call.args.date, WellFormed[i].repo_name>> \in KeysOf(repos_daily)

\* calculate_trends was called for 2026-01-01 with a list whose second
\* record has no repo_name, on a Store that holds the day before: the call
\* raised, and the Store has no row of 2026-01-01.
C22_Witness ==
    /\ Called
    /\ OneMalformed
    /\ Len(WellFormed) = 2
    /\ call.args.date = StrFTime(20454)
    /\ call.outcome = "raised"
    /\ pc = "failed"
    /\ ~NoPriorSnapshot
    /\ repos_daily[StrFTime(20454)] = <<>>

(***************************************************************************)
(* Claims about interrupted batch runs, checked under SpecRun              *)
(***************************************************************************)

\* The run has ended, by an exception or an interruption, in a step before
\* save_today_data committed the snapshot of the day: in step 4 or step 5.
EndedBeforeSnapshot == pc = "failed" /\ run.step \in {4, 5}

\* C23: a batch run that is interrupted, or fails, at any point before
\* save_today_data commits the snapshot of the day has no observable effect:
\* the database file holds what it held when the run started (repos_daily,
\* repos_history and repos_details alike), and no part of the day.
C23_InterruptedRunHasNoEffect ==
    EndedBeforeSnapshot =>
        /\ repos_daily = run.before.daily
        /\ repos_history = run.before.history
        /\ repos_details = run.before.details

\* A run was interrupted in step 5 after the loop of save_today_data had
\* written a record: the snapshot tables are as the run found them, and
\* repos_details is not, it holds the record step 4 committed.
C23_Witness ==
    /\ EndedBeforeSnapshot
    /\ run.step = 5
    /\ call.op = "calculate_trends"
    /\ call.outcome = "interrupted"
    /\ call.written >= 1
    /\ repos_daily = run.before.daily
    /\ repos_history = run.before.history
    /\ run.before.details = <<>>
    /\ repos_details # <<>>

(***************************************************************************)
(* Claims about the ranks of a stored day, checked under SpecRun           *)
(***************************************************************************)

\* No two rows of the list have the same rank.
RanksDiffer(rows) ==
    \A i, j \in 1..Len(rows) : i # j => rows[i].rank # rows[j].rank

\* C24: in every reachable Store state no two rows of repos_daily with the
\* same date have the same rank, also after the same date has been ingested
\* more than once with different entity lists.
C24_RankUniqueWithinDate ==
    \A d \in DateTexts : RanksDiffer(repos_daily[d])

\* A second run of the same day has committed a list with other entities:
\* its upsert replaced one row of the day and left another, so the day
\* holds three rows, and the ranks of each fetched list were 1 and 2.
C24_Witness ==
    /\ RunHasTrends
    /\ RanksDiffer(GivenToday)
    /\ call.replaced = 1
    /\ Len(repos_daily[run.today]) = 3
    /\ \A i \in 1..3 : repos_daily[run.today][i].rank \in {1, 2}

(***************************************************************************)
(* Claims about two consecutive daily runs, checked under SpecRun          *)
(***************************************************************************)

\* <<repo_name, rank, stars>> of the rows stored for a day.
Ingested(day) ==
    LET rows == repos_daily[StrFTime(day)]
    IN  {<<rows[i].repo_name, rows[i].rank, rows[i].stars>> : i \in 1..Len(rows)}

\* The run of 2026-01-01 has its trends for [B rank 1 stars 80, C rank 2
\* stars 40], and 2025-12-31 holds [A rank 1 stars 100, B rank 2 stars 50].
SecondDayOfTwo ==
    /\ RunHasTrends
    /\ run.today = StrFTime(20454)
    /\ Ingested(20453) = {<<"acme/a", 1, 100>>, <<"bob/b", 2, 50>>}
    /\ Ingested(20454) = {<<"bob/b", 1, 80>>, <<"cat/c", 2, 40>>}
    /\ SURGE_THRESHOLD = 3000

\* C25: after the run of day 1 has ingested [A rank 1 stars 100, B rank 2
\* stars 50] and the run of day 2 [B rank 1 stars 80, C rank 2 stars 40],
\* with SURGE_THRESHOLD = 0.3, the results of day 2 have rising_top5 = [B, with
\* stars_delta 30 and stars_rate 0.6], new_entries = [C], dropped_entries =
\* [A] and surging = [B].
C25_TwoDayScenario ==
    SecondDayOfTwo =>
        /\ NamesOf(run.trends.rising_top5) = <<"bob/b">>
        /\ run.trends.rising_top5[1].stars_delta = 30
        /\ run.trends.rising_top5[1].stars_rate = 6000
        /\ NamesOf(run.trends.new_entries) = <<"cat/c">>
        /\ NamesOf(run.trends.dropped_entries) = <<"acme/a">>
        /\ NamesOf(run.trends.surging) = <<"bob/b">>

\* The run of day 2 has its trends after its first ingestion of the day,
\* which found the two rows the run of day 1 had stored.
C25_Witness ==
    /\ SecondDayOfTwo
    /\ GivenToday = DayTwo
    /\ call.written = 2
    /\ call.replaced = 0
    /\ Len(repos_daily[StrFTime(20453)]) = 2
    /\ run.trends.date = StrFTime(20454)

(***************************************************************************)
(* Claims about the enrichment the other buckets carry, checked under      *)
(* SpecAnalyze                                                             *)
(***************************************************************************)

\* The fields of an enrichment record that only top_20 is to carry.
LongKeys == {"description", "use_case", "solves"}

\* The entry has under the long keys what `given` had and nothing else:
\* nothing of them was taken from an enrichment record.
NoLongFieldsBeyond(entry, given) ==
    \A k \in LongKeys :
       /\ k \in DOMAIN entry <=> k \in DOMAIN given
       /\ k \in DOMAIN given => entry[k] = given[k]

\* The buckets other than top_20 whose entries are records of today's list.
ShortBuckets ==
    <<call.ret.rising_top5, call.ret.falling_top5, call.ret.new_entries,
      call.ret.surging, call.ret.active>>

\* C26: only top_20 entries carry the full enrichment: an entry of
\* rising_top5, falling_top5, new_entries, dropped_entries, surging or active
\* of an entity that has an Enrichment Record carries of that record only
\* summary and the category label, never description, use_case or solves,
\* also when the entity is in top_20 as well.
C26_ShortFieldsOutsideTopTwenty ==
    Returned =>
        /\ \A b \in 1..Len(ShortBuckets) : \A i \in 1..Len(ShortBuckets[b]) :
              LET entry == ShortBuckets[b][i]
              IN  ~NotEnriched(entry) =>
                     NoLongFieldsBeyond(entry, GivenToday[PosOf(entry)])
        /\ \A i \in 1..Len(call.ret.dropped_entries) :
              ~NotEnriched(call.ret.dropped_entries[i]) =>
                 NoLongFieldsBeyond(call.ret.dropped_entries[i], EmptyDict)

\* The long list has been analyzed with the enrichment of e2 and e22: e2,
\* rank 2, is the third of rising_top5 and carries use_case and solves of
\* its record there; e22, rank 22, is a new entry with the summary of its
\* record and without use_case.
C26_Witness ==
    /\ Returned
    /\ GivenToday = BigToday
    /\ Entity(2) \in DOMAIN UsedSummaries
    /\ Entity(22) \in DOMAIN UsedSummaries
    /\ call.ret.top_20[2].repo_name = Entity(2)
    /\ Len(call.ret.rising_top5) = 5
    /\ call.ret.rising_top5[3].repo_name = Entity(2)
    /\ call.ret.rising_top5[3].summary = "two"
    /\ "use_case" \in DOMAIN call.ret.rising_top5[3]
    /\ call.ret.rising_top5[3].solves = <<"x">>
    /\ Len(call.ret.new_entries) = 3
    /\ call.ret.new_entries[3].repo_name = Entity(22)
    /\ call.ret.new_entries[3].summary = "twenty-two"
    /\ "use_case" \notin DOMAIN call.ret.new_entries[3]

(***************************************************************************)
(* Claims about the delta pass as a mapping, checked under SpecAnalyze     *)
(***************************************************************************)

\* C27: _calculate_deltas only annotates.  Its output has the entities of
\* today's list in the same order, none added and none removed; each record
\* has the keys it had and the three delta keys, and every field other than
\* rank_delta, stars_delta and stars_rate has the value it had; the mapping
\* of the day before is after the call what was stored before it.  The
\* list the call stores and the records it returns as top_20 are that
\* output.
C27_DeltasOnlyAnnotate ==
    Called =>
        LET T         == GivenToday
            Y         == ReadYesterday
            D         == _calculate_deltas(T, Y)
            yesterday == StrFTime(StrPTime(call.args.date) - 1)
        IN  /\ Len(D) = Len(T)
            /\ NamesOf(D) = NamesOf(T)
            /\ \A i \in 1..Len(T) :
                  /\ DOMAIN D[i] = DOMAIN T[i] \cup DeltaKeys
                  /\ \A k \in DOMAIN T[i] \ DeltaKeys : D[i][k] = T[i][k]
            /\ DOMAIN Y = DOMAIN upserted[yesterday]
            /\ \A e \in DOMAIN Y : Y[e] = upserted[yesterday][e]
            /\ Returned =>
                  /\ NamesOf(repos_daily[call.args.date]) = NamesOf(T)
                  /\ NamesOf(call.ret.top_20) = NamesOf(Take(T, 20))
                  /\ \A i \in 1..Len(call.ret.top_20) :
                        \A k \in DOMAIN T[i] \ (DeltaKeys \cup SummaryKeys) :
                           call.ret.top_20[i][k] = T[i][k]

\* The long list has been analyzed against the long list of the day before:
\* three of its 22 entities are not in yesterday's mapping, two of
\* yesterday's 21 are not in the list, and all 22 are stored, in order.
C27_Witness ==
    /\ Returned
    /\ GivenToday = BigToday
    /\ Cardinality(DOMAIN ReadYesterday) = 21
    /\ Cardinality(DOMAIN ReadYesterday \ Range(NamesOf(GivenToday))) = 2
    /\ Cardinality(Range(NamesOf(GivenToday)) \ DOMAIN ReadYesterday) = 3
    /\ NamesOf(repos_daily[call.args.date]) = NamesOf(BigToday)
    /\ call.ret.top_20[2].forks = BigToday[2].forks

(***************************************************************************)
(* Claims about the retention horizon passed to the cleanup, checked under *)
(* Spec                                                                    *)
(***************************************************************************)

\* C28: cleanup_old_data(days) uses cutoff = today - days for every value
\* passed, 0 included: it deletes from both tables every row dated before
\* today - days and keeps the others, and cleanup_old_data(0) deletes every
\* row dated before today; it never takes another horizon than the one
\* passed.
C28_CutoffIsTodayMinusDaysPassed ==
    [][(call'.op = "cleanup_old_data" /\ "days" \in DOMAIN call'.args) =>
         LET today == LocalDay(now, tz)
             old   == {d \in DateTexts : StrPTime(d) < today - call'.args.days}
         IN  /\ call'.cutoff = StrFTime(today - call'.args.days)
             /\ \A d \in old :
                   repos_daily'[d] = <<>> /\ repos_history'[d] = <<>>
             /\ \A d \in DateTexts \ old :
                   /\ repos_daily'[d] = repos_daily[d]
                   /\ repos_history'[d] = repos_history[d]
      ]_vars

\* cleanup_old_data(0) has been called on a Store that holds rows of two
\* days before today, with 90 days configured: it returned 0 and the rows
\* are still there.
C28_Witness ==
    /\ call.op = "cleanup_old_data"
    /\ call.args = [days |-> 0]
    /\ DB_RETENTION_DAYS = 90
    /\ call.ret = 0
    /\ \A d \in Days :
          /\ d < LocalDay(now, tz)
          /\ repos_daily[StrFTime(d)] # <<>>
          /\ repos_history[StrFTime(d)] # <<>>

(***************************************************************************)
(* Claims about the deltas the Store keeps, checked under SpecIngest       *)
(***************************************************************************)

\* The delta of a stored row of day D against the rows stored for D - 1:
\* its stars minus the stars of its entity there, 0 when D - 1 has no row
\* of the entity.
DeltaAgainstStored(D, row) ==
    LET Y == yesterday_map(get_yesterday_data(repos_daily, StrFTime(D)))
    IN  IF row.repo_name \in DOMAIN Y
        THEN row.stars - Y[row.repo_name].stars
        ELSE 0

\* C29: after any sequence of runs of main() and of main_fetch_only(), the
\* stars_delta of every row (D, e) of repos_daily is the delta computed at
\* its ingestion: stars(D, e) minus the stored stars of e on day D - 1 when
\* D - 1 has a row of e, and 0 otherwise.  In particular no later ingestion
\* of a day leaves a 0 where the computed delta is not 0.  (No run of
\* SpecIngest deletes or rewrites the rows of D - 1 once D has rows.)
C29_StoredDeltaIsComputedDelta ==
    \A D \in Days :
       \A i \in 1..Len(repos_daily[StrFTime(D)]) :
          LET row == repos_daily[StrFTime(D)][i]
          IN  row.stars_delta = DeltaAgainstStored(D, row)

\* On 2026-01-01 a run of main_fetch_only has committed its snapshot over
\* the rows a run of main() had stored that day: the row of bob/b, 80 stars
\* against 50 the day before, had stars_delta 30 and now has 0.
C29_Witness ==
    /\ call.op = "save_today_data"
    /\ "by" \in DOMAIN call
    /\ call.by = "main_fetch_only"
    /\ call.outcome = "ok"
    /\ call.args.date = StrFTime(20454)
    /\ call.replaced = 2
    /\ Ingested(20453) = {<<"acme/a", 1, 100>>, <<"bob/b", 2, 50>>}
    /\ Ingested(20454) = {<<"bob/b", 1, 80>>, <<"cat/c", 2, 40>>}
    /\ \E i \in 1..Len(repos_daily[StrFTime(20454)]) :
          /\ repos_daily[StrFTime(20454)][i].repo_name = "bob/b"
          /\ repos_daily[StrFTime(20454)][i].stars_delta = 0
          /\ DeltaAgainstStored(20454, repos_daily[StrFTime(20454)][i]) = 30

(***************************************************************************)
(* Claims about surging for every threshold, checked under SpecAnalyze     *)
(***************************************************************************)

\* The record of today's list is of an entity the day before does not have,
\* or of one whose stars are those of the day before: its deltas are 0.
NoGrowth(repo) ==
    \/ repo.repo_name \notin DOMAIN ReadYesterday
    \/ ReadYesterday[repo.repo_name].stars = repo.stars

\* C30: for every SURGE_THRESHOLD the configuration can produce (a number
\* clamped into 0..1, 0 included), an entity with no record of the day
\* before, whose deltas are therefore 0, is not in surging, and neither is
\* an entity whose stars did not change.
C30_NoSurgeWithoutGrowth ==
    Returned =>
        \A i \in 1..Len(GivenToday) :
           NoGrowth(GivenToday[i]) =>
              GivenToday[i].repo_name \notin Range(NamesOf(call.ret.surging))

\* The process was started with SURGE_THRESHOLD=0 and the long list has been
\* analyzed against the long list of the day before: e15, new, and e1,
\* whose stars did not change, are in surging with a rate of 0; e12, which
\* lost stars, is not.
C30_Witness ==
    /\ Returned
    /\ "SURGE_THRESHOLD" \in DOMAIN environ
    /\ environ.SURGE_THRESHOLD.text = "0"
    /\ SURGE_THRESHOLD = 0
    /\ GivenToday = BigToday
    /\ Cardinality(DOMAIN ReadYesterday) = 21
    /\ NoGrowth(GivenToday[15])
    /\ NoGrowth(GivenToday[1])
    /\ {Entity(15), Entity(1)} \subseteq Range(NamesOf(call.ret.surging))
    /\ Entity(12) \notin Range(NamesOf(call.ret.surging))
    /\ \A i \in 1..Len(call.ret.surging) : call.ret.surging[i].stars_rate >= 0
    /\ \E i \in 1..Len(call.ret.surging) :
          /\ call.ret.surging[i].repo_name = Entity(15)
          /\ call.ret.surging[i].stars_rate = 0
          /\ call.ret.surging[i].stars_delta = 0

====
